---------------------------- MODULE Spec2Model ----------------------------
(***************************************************************************)
(* A model of the BJL codec (BinaryReader, BJLConverter) of the            *)
(* repository.  Byte buffers are sequences of 0..255, JavaScript strings   *)
(* are sequences of UTF-16 code units, JavaScript values are one-field     *)
(* records named after their kind, and JavaScript objects keep their own   *)
(* properties in Object.keys order.                                        *)
(***************************************************************************)
EXTENDS Integers, Sequences, FiniteSets, TLC

(***************************************************************************)
(* Bounds of the model.                                                    *)
(***************************************************************************)
\* The most iterations a decoding loop is followed for before the model
\* gives the run up as not making progress.
MaxLoop == 12

\* The offsets up to which, in either direction, a BinaryReader on its own
\* is followed.
MaxOffset == 8

\* The number of bytes given to a BinaryWriter on its own after which no
\* further write call is followed.
MaxWritten == 9

\* The number of node objects a ContextMenu is followed for.
MaxNodes == 3

\* The number of close timers of a DaisySheetModal that may be waiting at
\* a time.
MaxTimers == 2

\* The largest number of boxes of an OtpInput.
MaxBoxes == 3

(***************************************************************************)
(* Little-endian integers (DataView.getInt32 / setInt32 with `true`).      *)
(***************************************************************************)
Pow2(n) == IF n <= 0 THEN 1 ELSE 2 ^ n

\* writer.writeInt(v): v | 0 as four bytes, least significant first.
IntToBytes(v) ==
  LET w == IF v >= 0 THEN v ELSE (v + 2147483647) + 1
      top == (w \div 16777216) + (IF v >= 0 THEN 0 ELSE 128)
  IN  << w % 256, (w \div 256) % 256, (w \div 65536) % 256, top >>

\* view.getInt32(offset, true) of the four bytes b.
BytesToInt(b) ==
  LET low == b[1] + 256 * b[2] + 65536 * b[3]
  IN  IF b[4] < 128 THEN low + 16777216 * b[4]
      ELSE ((low + 16777216 * (b[4] - 128)) - 2147483647) - 1

\* view.getInt16(offset, true) of the two bytes b.
BytesToShort(b) ==
  LET u == b[1] + 256 * b[2] IN IF u < 32768 THEN u ELSE u - 65536

\* view.setInt16(offset, v, true).
ShortToBytes(v) ==
  LET u == v % 65536
  IN  << u % 256, u \div 256 >>

\* TypedArray.prototype.slice(start, end): negative indices count from the
\* end, both are clamped to the array, an empty range gives an empty array.
Slice(buf, start, end) ==
  LET n == Len(buf)
      Clamp(i) == IF i < 0 THEN (IF n + i < 0 THEN 0 ELSE n + i)
                  ELSE IF i > n THEN n ELSE i
  IN  IF Clamp(end) <= Clamp(start) THEN << >>
      ELSE SubSeq(buf, Clamp(start) + 1, Clamp(end))

(***************************************************************************)
(* BinaryReader.  A read takes the buffer and the offset and gives         *)
(* [err, v, off]: err is "" when the read returned and otherwise names     *)
(* what it threw, v is what it returned, off is the offset it left in the  *)
(* reader.  Every step of a decode gives such a result.                    *)
(***************************************************************************)
Ok(v, off) == [err |-> "", v |-> v, off |-> off]
Thrown(e, off) == [err |-> e, v |-> << >>, off |-> off]

\* The step F on the result r of the step before it, unless that one threw.
Bind(r, F(_)) == IF r.err # "" THEN Thrown(r.err, r.off) ELSE F(r)

\* What F makes of the result r of the step before it, thrown or not.
Then(r, F(_)) == F(r)

\* this.view.getUint8(this.offset++): the offset is incremented before the
\* access is range-checked.
readByte(buf, off) ==
  IF off >= 0 /\ off < Len(buf)
  THEN Ok(buf[off + 1], off + 1)
  ELSE Thrown("RangeError", off + 1)

readSignedByte(buf, off) ==
  IF off >= 0 /\ off < Len(buf)
  THEN Ok(IF buf[off + 1] < 128 THEN buf[off + 1] ELSE buf[off + 1] - 256, off + 1)
  ELSE Thrown("RangeError", off + 1)

\* getInt32 throws before this.offset += 4 is reached.
readInt(buf, off) ==
  IF off >= 0 /\ off + 4 <= Len(buf)
  THEN Ok(BytesToInt(SubSeq(buf, off + 1, off + 4)), off + 4)
  ELSE Thrown("RangeError", off)

\* buffer.slice never throws; the offset moves by len whatever was returned.
readBytes(buf, off, len) == Ok(Slice(buf, off, off + len), off + len)

(***************************************************************************)
(* JavaScript values.  Each is a record with one field, named after its    *)
(* kind: [num |-> k] an integer number of magnitude below 2^24,            *)
(* [f32 |-> b] every other float32 value (fractions, -0, infinities, NaN,  *)
(* large magnitudes) as its four little-endian bytes, [str |-> s],         *)
(* [bool |-> b], [null |-> 0], [undef |-> 0], [obj |-> pairs] an object    *)
(* with its own properties <<key, value>> in Object.keys order, and        *)
(* [arr |-> items] an array.                                               *)
(***************************************************************************)
Num(k) == [num |-> k]
F32(b) == [f32 |-> b]
Str(s) == [str |-> s]
Bool(b) == [bool |-> b]
Null == [null |-> 0]
Undefined == [undef |-> 0]
Obj(pairs) == [obj |-> pairs]
Arr(items) == [arr |-> items]

\* The kind of a value: what typeof, Array.isArray and the comparisons with
\* null and undefined tell apart.
Is(x, kind) == DOMAIN x = { kind }

\* The NaN a float32 store writes.
NaNBytes == << 0, 0, 192, 127 >>

RECURSIVE FloorLog2(_)
FloorLog2(a) == IF a <= 1 THEN 0 ELSE 1 + FloorLog2(a \div 2)

\* view.getFloat32(offset, true) of the four bytes b, as a JavaScript number.
F32ToNum(b) ==
  LET neg == b[4] >= 128
      e == (b[4] % 128) * 2 + (b[3] \div 128)
      m == (b[3] % 128) * 65536 + b[2] * 256 + b[1]
      mant == 8388608 + m
      shift == 150 - e
  IN  IF e = 0 /\ m = 0 /\ ~neg THEN Num(0)
      ELSE IF e = 255 /\ m # 0 THEN F32(NaNBytes)
      ELSE IF e >= 127 /\ e <= 150 /\ mant % Pow2(shift) = 0
           THEN Num((IF neg THEN -1 ELSE 1) * (mant \div Pow2(shift)))
      ELSE F32(b)

\* view.setFloat32(offset, x, true) for a number x of the model.
NumToF32(x) ==
  IF Is(x, "f32") THEN x.f32
  ELSE IF x.num = 0 THEN << 0, 0, 0, 0 >>
  ELSE LET a == IF x.num < 0 THEN -x.num ELSE x.num
           ex == FloorLog2(a)
           e == ex + 127
           m == a * Pow2(23 - ex) - 8388608
       IN  << m % 256, (m \div 256) % 256, (m \div 65536) + (e % 2) * 128,
              (e \div 2) + (IF x.num < 0 THEN 128 ELSE 0) >>

\* true when `x || dflt` takes dflt for the number x: 0, -0 and NaN.
FalsyNumber(x) ==
  \/ Is(x, "undef")
  \/ Is(x, "num") /\ x.num = 0
  \/ Is(x, "f32") /\ x.f32 \in { << 0, 0, 0, 128 >>, NaNBytes }

\* reader.readFloat(): as readInt, with the bytes read as a float32.
readFloat(buf, off) ==
  IF off >= 0 /\ off + 4 <= Len(buf)
  THEN Ok(F32ToNum(SubSeq(buf, off + 1, off + 4)), off + 4)
  ELSE Thrown("RangeError", off)

(***************************************************************************)
(* Strings.  A JavaScript string is the sequence of its UTF-16 code units. *)
(***************************************************************************)
\* The replacement character U+FFFD.
Replacement == 65533

\* The UTF-16 code units of the code point cp.
CodeUnits(cp) ==
  IF cp < 65536 THEN << cp >>
  ELSE << 55296 + ((cp - 65536) \div 1024), 56320 + ((cp - 65536) % 1024) >>

\* The UTF-8 bytes of the code point cp.
Utf8Of(cp) ==
  IF cp < 128 THEN << cp >>
  ELSE IF cp < 2048 THEN << 192 + (cp \div 64), 128 + (cp % 64) >>
  ELSE IF cp < 65536
       THEN << 224 + (cp \div 4096), 128 + ((cp \div 64) % 64), 128 + (cp % 64) >>
  ELSE << 240 + (cp \div 262144), 128 + ((cp \div 4096) % 64),
          128 + ((cp \div 64) % 64), 128 + (cp % 64) >>

\* The concatenation of the sequences f[lo], ..., f[hi], halving the range
\* so that the evaluation does not nest as deep as the range is long.
RECURSIVE Concat(_, _, _)
Concat(f, lo, hi) ==
  IF lo > hi THEN << >>
  ELSE IF lo = hi THEN f[lo]
  ELSE LET mid == (lo + hi) \div 2
       IN  Concat(f, lo, mid) \o Concat(f, mid + 1, hi)

IsHighSurrogate(c) == c >= 55296 /\ c <= 56319
IsLowSurrogate(c) == c >= 56320 /\ c <= 57343

\* new TextEncoder().encode(s): a high surrogate followed by a low one is
\* one code point, any other surrogate is encoded as U+FFFD.
TextEncode(s) ==
  LET unit(i) ==
        IF IsHighSurrogate(s[i])
        THEN IF i < Len(s) /\ IsLowSurrogate(s[i + 1])
             THEN Utf8Of(65536 + (s[i] - 55296) * 1024 + (s[i + 1] - 56320))
             ELSE Utf8Of(Replacement)
        ELSE IF IsLowSurrogate(s[i])
        THEN IF i > 1 /\ IsHighSurrogate(s[i - 1]) THEN << >>
             ELSE Utf8Of(Replacement)
        ELSE Utf8Of(s[i])
  IN  Concat([i \in 1..Len(s) |-> unit(i)], 1, Len(s))

\* The UTF-8 decoder of the Encoding Standard.  Its state is
\* [needed, seen, cp, lower, upper]; a step takes one byte and gives the
\* next state and the code units put out.
Utf8Start == [needed |-> 0, seen |-> 0, cp |-> 0, lower |-> 128, upper |-> 191]

Utf8Lead(x) ==
  IF x < 128 THEN [st |-> Utf8Start, out |-> << x >>]
  ELSE IF x >= 194 /\ x <= 223
  THEN [st |-> [Utf8Start EXCEPT !.needed = 1, !.cp = x % 32], out |-> << >>]
  ELSE IF x >= 224 /\ x <= 239
  THEN [st |-> [needed |-> 2, seen |-> 0, cp |-> x % 16,
                lower |-> IF x = 224 THEN 160 ELSE 128,
                upper |-> IF x = 237 THEN 159 ELSE 191],
        out |-> << >>]
  ELSE IF x >= 240 /\ x <= 244
  THEN [st |-> [needed |-> 3, seen |-> 0, cp |-> x % 8,
                lower |-> IF x = 240 THEN 144 ELSE 128,
                upper |-> IF x = 244 THEN 143 ELSE 191],
        out |-> << >>]
  ELSE [st |-> Utf8Start, out |-> << Replacement >>]

\* A byte that cannot continue the sequence gives U+FFFD and is then
\* decoded as the first byte of a new sequence.
Utf8Step(st, x) ==
  IF st.needed = 0 THEN Utf8Lead(x)
  ELSE IF x < st.lower \/ x > st.upper
  THEN [st |-> Utf8Lead(x).st, out |-> << Replacement >> \o Utf8Lead(x).out]
  ELSE LET cp2 == st.cp * 64 + (x % 64) IN
       IF st.seen + 1 = st.needed
       THEN [st |-> Utf8Start, out |-> CodeUnits(cp2)]
       ELSE [st |-> [st EXCEPT !.seen = st.seen + 1, !.cp = cp2,
                               !.lower = 128, !.upper = 191],
             out |-> << >>]

\* The decoder run over bytes lo..hi of b from the state st, the range
\* halved as in Concat.
RECURSIVE Utf8Run(_, _, _, _)
Utf8Run(b, lo, hi, st) ==
  IF lo > hi THEN [st |-> st, out |-> << >>]
  ELSE IF lo = hi THEN Utf8Step(st, b[lo])
  ELSE LET mid == (lo + hi) \div 2
           left == Utf8Run(b, lo, mid, st)
           right == Utf8Run(b, mid + 1, hi, left.st)
       IN  IF left.st.needed >= 0
           THEN [st |-> right.st, out |-> left.out \o right.out]
           ELSE left

\* new TextDecoder().decode(b): UTF-8, an unfinished last sequence gives
\* U+FFFD, a leading byte order mark is dropped.
TextDecode(b) ==
  LET run == Utf8Run(b, 1, Len(b), Utf8Start)
      s == IF run.st.needed # 0 THEN run.out \o << Replacement >> ELSE run.out
  IN  IF s # << >> /\ s[1] = 65279 THEN Tail(s) ELSE s

(***************************************************************************)
(* The texts the code spells out and those JavaScript converts values to, *)
(* as code units: "ValueType", "Value", "undefined", "__proto__",          *)
(* "toString", "true", "false", "null" and "0x".                           *)
(***************************************************************************)
Text ==
  [ValueType |-> << 86, 97, 108, 117, 101, 84, 121, 112, 101 >>,
   Value |-> << 86, 97, 108, 117, 101 >>,
   undefined |-> << 117, 110, 100, 101, 102, 105, 110, 101, 100 >>,
   proto |-> << 95, 95, 112, 114, 111, 116, 111, 95, 95 >>,
   toString |-> << 116, 111, 83, 116, 114, 105, 110, 103 >>,
   true |-> << 116, 114, 117, 101 >>,
   false |-> << 102, 97, 108, 115, 101 >>,
   null |-> << 110, 117, 108, 108 >>,
   hex |-> << 48, 120 >>]

\* The names every plain object inherits from Object.prototype: `name in {}`
\* is true for each of them.
ProtoNames ==
  { Text.proto,
    << 99, 111, 110, 115, 116, 114, 117, 99, 116, 111, 114 >>,
    << 116, 111, 83, 116, 114, 105, 110, 103 >>,
    << 118, 97, 108, 117, 101, 79, 102 >>,
    << 104, 97, 115, 79, 119, 110, 80, 114, 111, 112, 101, 114, 116, 121 >>,
    << 105, 115, 80, 114, 111, 116, 111, 116, 121, 112, 101, 79, 102 >>,
    << 112, 114, 111, 112, 101, 114, 116, 121, 73, 115, 69, 110, 117, 109, 101, 114, 97, 98, 108, 101 >>,
    << 116, 111, 76, 111, 99, 97, 108, 101, 83, 116, 114, 105, 110, 103 >>,
    << 95, 95, 100, 101, 102, 105, 110, 101, 71, 101, 116, 116, 101, 114, 95, 95 >>,
    << 95, 95, 100, 101, 102, 105, 110, 101, 83, 101, 116, 116, 101, 114, 95, 95 >>,
    << 95, 95, 108, 111, 111, 107, 117, 112, 71, 101, 116, 116, 101, 114, 95, 95 >>,
    << 95, 95, 108, 111, 111, 107, 117, 112, 83, 101, 116, 116, 101, 114, 95, 95 >> }

(***************************************************************************)
(* Objects: the sequence of own properties <<key, value>>, kept in the     *)
(* order Object.keys gives: array-index keys in ascending numeric order,   *)
(* then the other keys in insertion order.                                 *)
(***************************************************************************)
IsDigits(s) == \A i \in 1..Len(s) : s[i] >= 48 /\ s[i] <= 57

\* s is the canonical decimal form of an array index.  Keys of ten digits
\* and more are beyond the strings of this model.
IsArrayIndex(s) ==
  /\ Len(s) >= 1 /\ Len(s) <= 9
  /\ IsDigits(s)
  /\ (s[1] = 48 => Len(s) = 1)

RECURSIVE IndexValue(_)
IndexValue(s) ==
  IF s = << >> THEN 0
  ELSE 10 * IndexValue(SubSeq(s, 1, Len(s) - 1)) + (s[Len(s)] - 48)

\* Object.prototype.hasOwnProperty.call(o, k)
HasOwn(pairs, k) == \E i \in 1..Len(pairs) : pairs[i][1] = k

\* k in o, for a plain object o
In(pairs, k) == HasOwn(pairs, k) \/ k \in ProtoNames

\* o[k] for an own property, undefined when there is none
Get(pairs, k) ==
  IF HasOwn(pairs, k)
  THEN pairs[CHOOSE i \in 1..Len(pairs) : pairs[i][1] = k][2]
  ELSE Undefined

\* Object.keys(o)
Keys(pairs) == [i \in 1..Len(pairs) |-> pairs[i][1]]

\* The place a new key takes in Object.keys order.
InsertAt(pairs, k) ==
  IF IsArrayIndex(k)
  THEN 1 + Cardinality({ i \in 1..Len(pairs) :
                           /\ IsArrayIndex(pairs[i][1])
                           /\ IndexValue(pairs[i][1]) < IndexValue(k) })
  ELSE Len(pairs) + 1

\* o[k] = v: an existing property keeps its place, a new one is placed by
\* Object.keys order; assigning "__proto__" creates no own property.
Set(pairs, k, v) ==
  IF k = Text.proto THEN pairs
  ELSE IF HasOwn(pairs, k)
  THEN [i \in 1..Len(pairs) |-> IF pairs[i][1] = k THEN << k, v >> ELSE pairs[i]]
  ELSE LET at == InsertAt(pairs, k)
       IN  SubSeq(pairs, 1, at - 1) \o << << k, v >> >> \o SubSeq(pairs, at, Len(pairs))

RECURSIVE Digits(_)
Digits(n) == IF n < 10 THEN << 48 + n >> ELSE Digits(n \div 10) \o << 48 + (n % 10) >>

\* String(x) for the values of the model; the property key of o[x], of
\* x in o and of hasOwnProperty.call(o, x).
JsString(x) ==
  IF Is(x, "str") THEN x.str
  ELSE IF Is(x, "num") THEN (IF x.num < 0 THEN << 45 >> \o Digits(-x.num) ELSE Digits(x.num))
  ELSE IF Is(x, "bool") THEN (IF x.bool THEN Text.true ELSE Text.false)
  ELSE IF Is(x, "null") THEN Text.null
  ELSE Text.undefined

(***************************************************************************)
(* TYPE_CODES                                                              *)
(***************************************************************************)
TYPE_CODES ==
  [CINT |-> 1, CSTRING |-> 2, CMAP |-> 3, ENDOFMAP |-> 4, BOOL |-> 5, CCOLOR |-> 6,
   CFLOAT |-> 7, CACHED_STRING |-> 9, RECT32 |-> 11, CNULL |-> 12]

\* The tagged value { ValueType: type, Value: value } and { ValueType: type }.
Tagged(type, value) == Obj(<< << Text.ValueType, Num(type) >>, << Text.Value, value >> >>)
TaggedOnly(type) == Obj(<< << Text.ValueType, Num(type) >> >>)

(***************************************************************************)
(* Decoding.  Each step takes the buffer and the offset of the reader and  *)
(* makes its reads in the order the code makes them.                       *)
(***************************************************************************)
\* _readString: a length and that many bytes of UTF-8.
ReadString(buf, off) ==
  Bind(readInt(buf, off), LAMBDA len :
  Bind(readBytes(buf, len.off, len.v), LAMBDA d :
  Ok(Str(TextDecode(d.v)), d.off)))

\* _readCachedString: with an empty cache the string itself is read;
\* cache[i] for an index outside the cache is undefined.
ReadCachedString(buf, off, cache) ==
  IF Len(cache) = 0 THEN ReadString(buf, off)
  ELSE Bind(readInt(buf, off), LAMBDA i :
       Ok(IF i.v >= 0 /\ i.v < Len(cache) THEN cache[i.v + 1] ELSE Undefined, i.off))

\* The loop of _loadStringsCache, with arr the strings read so far.
RECURSIVE LoadStringsLoop(_, _, _, _)
LoadStringsLoop(buf, off, count, arr) ==
  IF Len(arr) >= count THEN Ok(arr, off)
  ELSE IF Len(arr) >= MaxLoop THEN Thrown("NoProgress", off)
  ELSE Bind(ReadString(buf, off), LAMBDA s :
       LoadStringsLoop(buf, s.off, count, Append(arr, s.v)))

\* _loadStringsCache: new Array(count) throws for a negative count.
LoadStringsCache(buf, off) ==
  Bind(readInt(buf, off), LAMBDA count :
  IF count.v < 0 THEN Thrown("RangeError", count.off)
  ELSE LoadStringsLoop(buf, count.off, count.v, << >>))

\* _hexFromBytes without padStart: a byte below 16 gives one digit.
HexFromBytesUnpadded(d) ==
  LET HexDigit(n) == IF n < 10 THEN 48 + n ELSE 55 + n
  IN  Concat([i \in 1..Len(d) |->
                IF d[i] < 16 THEN << HexDigit(d[i]) >>
                ELSE << HexDigit(d[i] \div 16), HexDigit(d[i] % 16) >>],
             1, Len(d))

\* _hexFromBytes: two uppercase hexadecimal digits for each byte.
HexFromBytes(d) ==
  LET HexDigit(n) == IF n < 10 THEN 48 + n ELSE 55 + n
  IN  Concat([i \in 1..Len(d) |-> << HexDigit(d[i] \div 16), HexDigit(d[i] % 16) >>],
             1, Len(d))

(***************************************************************************)
(* _readMap.  The loop gives [map, n, stop, keyAt, unknown, after]: map    *)
(* holds the properties assigned, n counts the assignments map[key] =      *)
(* value made, stop tells how the loop was left ("end" on an ENDOFMAP tag, *)
(* "unknown" on a tag outside the switch), keyAt is the offset at which    *)
(* the pair that ended the loop begins, unknown is the offset after the    *)
(* first tag outside the switch that this call or a call it made for a     *)
(* nested map has met (-1 for none), and after is the number of            *)
(* assignments made, since that tag was met, by later iterations of the    *)
(* loops that were in progress then.  fuel bounds the iterations and the   *)
(* nesting the model follows.  The reads of an iteration depend on the     *)
(* buffer, the cache and the offset alone, so an iteration that leaves the *)
(* reader at the offset it began at is repeated without end: the loop is   *)
(* then never left, which the result "Forever" stands for.                 *)
(***************************************************************************)
RECURSIVE ReadMapLoop(_, _, _, _, _, _)

\* The cases of the switch on the type code; at is the offset after it.
ReadValue(buf, at, cache, type, fuel) ==
  CASE type = TYPE_CODES.CINT ->
         Bind(readInt(buf, at), LAMBDA r : Ok(Num(r.v), r.off))
    [] type = TYPE_CODES.CACHED_STRING -> ReadCachedString(buf, at, cache)
    [] type = TYPE_CODES.CFLOAT ->
         Bind(readFloat(buf, at), LAMBDA r : Ok(Tagged(type, r.v), r.off))
    [] type = TYPE_CODES.CSTRING ->
         Bind(ReadString(buf, at), LAMBDA r : Ok(Tagged(type, r.v), r.off))
    [] type = TYPE_CODES.BOOL ->
         Bind(readSignedByte(buf, at), LAMBDA r : Ok(Bool(r.v = 1), r.off))
    [] type = TYPE_CODES.CMAP ->
         Bind(ReadMapLoop(buf, at, cache, << >>, 0, fuel - 1), LAMBDA r :
         [err |-> "", v |-> Obj(r.v.map), off |-> r.off, unknown |-> r.v.unknown,
          after |-> r.v.after])
    [] type = TYPE_CODES.CNULL -> Ok(TaggedOnly(type), at)
    [] type = TYPE_CODES.CCOLOR ->
         Bind(readBytes(buf, at, 4), LAMBDA d :
         Ok(Tagged(type, Str(Text.hex \o HexFromBytes(d.v))), d.off))
    [] type = TYPE_CODES.RECT32 ->
         Bind(readBytes(buf, at, 8), LAMBDA d :
         IF Len(d.v) < 8 THEN Thrown("RangeError", d.off)
         ELSE Ok(Tagged(type, Arr([i \in 1..4 |->
                                    Num(BytesToShort(SubSeq(d.v, 2 * i - 1, 2 * i)))])),
                 d.off))

\* while (true): the key, the type code, ENDOFMAP or the default case
\* leaving the loop, else map[key] = value.
ReadMapLoop(buf, off, cache, map, n, fuel) ==
  IF fuel <= 0 THEN Thrown("NoProgress", off)
  ELSE Bind(ReadCachedString(buf, off, cache), LAMBDA key :
       Bind(readSignedByte(buf, key.off), LAMBDA type :
       IF type.v = TYPE_CODES.ENDOFMAP
       THEN Ok([map |-> map, n |-> n, stop |-> "end", keyAt |-> off, unknown |-> -1,
                after |-> 0], type.off)
       ELSE IF type.v \notin { TYPE_CODES.CINT, TYPE_CODES.CACHED_STRING,
                               TYPE_CODES.CFLOAT, TYPE_CODES.CSTRING, TYPE_CODES.BOOL,
                               TYPE_CODES.CMAP, TYPE_CODES.CNULL, TYPE_CODES.CCOLOR,
                               TYPE_CODES.RECT32 }
       THEN Ok([map |-> map, n |-> n, stop |-> "unknown", keyAt |-> off,
                unknown |-> type.off, after |-> 0], type.off)
       ELSE Bind(ReadValue(buf, type.off, cache, type.v, fuel), LAMBDA val :
            IF val.off = off THEN Thrown("Forever", off)
            ELSE Bind(ReadMapLoop(buf, val.off, cache, Set(map, JsString(key.v), val.v),
                                  n + 1, fuel - 1), LAMBDA rest :
                 IF type.v = TYPE_CODES.CMAP /\ val.unknown >= 0
                 THEN Ok([rest.v EXCEPT !.unknown = val.unknown,
                                        !.after = val.after + (rest.v.n - (n + 1))],
                         rest.off)
                 ELSE rest))))

\* _readMap(reader, cache)
ReadMap(buf, off, cache) == ReadMapLoop(buf, off, cache, << >>, 0, MaxLoop)

(***************************************************************************)
(* Compression.  pako is a library outside the repository: the model keeps *)
(* what the codec relies on.  A gzip stream is the two magic bytes, the    *)
(* data, a checksum of the data and its length; ungzip gives the data back *)
(* for such a stream and throws for anything else, so that a stream with   *)
(* one byte changed, a truncated stream and the empty stream all fail.     *)
(***************************************************************************)
\* The sum modulo 256 of bytes lo..hi of d, the range halved as in Concat.
RECURSIVE RangeSum(_, _, _)
RangeSum(d, lo, hi) ==
  IF lo > hi THEN 0
  ELSE IF lo = hi THEN d[lo]
  ELSE (RangeSum(d, lo, (lo + hi) \div 2) + RangeSum(d, ((lo + hi) \div 2) + 1, hi)) % 256

\* pako.gzip(data, { level: 9, mtime: 0 })
Gzip(data) ==
  << 31, 139 >> \o data \o << (RangeSum(data, 1, Len(data)) + 1) % 256, Len(data) % 256 >>

\* pako.ungzip(raw), as a read of the whole stream
Ungzip(raw) ==
  IF Len(raw) >= 4 /\ raw = Gzip(SubSeq(raw, 3, Len(raw) - 2))
  THEN Ok(SubSeq(raw, 3, Len(raw) - 2), Len(raw))
  ELSE Thrown("Error", 0)

(***************************************************************************)
(* The script block.                                                       *)
(***************************************************************************)
\* value << shift for a value of 7 bits: the count is taken modulo 32 and
\* the result wraps to 32 bits.
ShiftLeft(value, shift) ==
  LET sh == shift % 32
      keep == value % Pow2(32 - sh)
      half == Pow2(31 - sh)
  IN  IF sh <= 24 THEN value * Pow2(sh)
      ELSE IF keep < half THEN keep * Pow2(sh)
      ELSE (((keep - half) * Pow2(sh)) - 2147483647) - 1

\* The prefix loop of _readBinaryString: 7 bits of the length per byte, a
\* byte with its high bit set (negative as a signed byte) is followed by
\* another.  The model follows at most five prefix bytes.
RECURSIVE ReadLengthPrefix(_, _, _, _)
ReadLengthPrefix(buf, off, length, shift) ==
  Bind(readSignedByte(buf, off), LAMBDA b :
  IF b.v = b.v % 128 THEN Ok(length + ShiftLeft(b.v % 128, shift), b.off)
  ELSE IF shift >= 28 THEN Thrown("NoProgress", b.off)
  ELSE ReadLengthPrefix(buf, b.off, length + ShiftLeft(b.v % 128, shift), shift + 7))

\* _readBinaryString
ReadBinaryString(buf, off) ==
  Bind(ReadLengthPrefix(buf, off, 0, 0), LAMBDA length :
  Bind(readBytes(buf, length.off, length.v), LAMBDA data :
  Ok(Str(TextDecode(data.v)), data.off)))

\* _readVariantFromStream, and the object the variant loop of
\* convertBjlToJsonFromBytes pushes: Scale, Width, Height, read in that
\* order.
ReadVariant(buf, off) ==
  Bind(readFloat(buf, off), LAMBDA scale :
  Bind(readInt(buf, scale.off), LAMBDA width :
  Bind(readInt(buf, width.off), LAMBDA height :
  Ok([Scale |-> scale.v, Width |-> Num(width.v), Height |-> Num(height.v)],
     height.off))))

\* The variant loop of _readScripts, over the decompressed stream: the
\* variant is read and dropped, its script is pushed.
RECURSIVE ReadScriptsLoop(_, _, _, _, _)
ReadScriptsLoop(buf, off, count, i, res) ==
  IF i >= count THEN Ok(res, off)
  ELSE IF i >= MaxLoop THEN Thrown("NoProgress", off)
  ELSE Bind(ReadVariant(buf, off), LAMBDA v :
       Bind(ReadBinaryString(buf, v.off), LAMBDA t :
       ReadScriptsLoop(buf, t.off, count, i + 1, Append(res, t.v))))

\* The body of the try block of _readScripts, on the raw block.
ParseScripts(rawData) ==
  Bind(Ungzip(rawData), LAMBDA script :
  Bind(ReadBinaryString(script.v, 0), LAMBDA general :
  Bind(readInt(script.v, general.off), LAMBDA NumberOfVariants :
  ReadScriptsLoop(script.v, NumberOfVariants.off, NumberOfVariants.v, 0,
                  << general.v >>))))

\* The catch block of _readScripts: whatever the try block threw gives the
\* empty list.  The result tells besides the list whether the catch block
\* was taken (failed) and the length read (len).
Caught(res, len, off) ==
  IF res.err = "NoProgress" THEN Thrown("NoProgress", off)
  ELSE Ok([scripts |-> IF res.err # "" THEN << >> ELSE res.v,
           failed |-> res.err # "", len |-> len], off)

\* _readScripts reading the raw block inside its try block: a block that
\* cannot be decoded leaves the reader after the length field.
ReadScriptsInTry(buf, off) ==
  Bind(readInt(buf, off), LAMBDA len :
  Bind(readBytes(buf, len.off, len.v), LAMBDA rawData :
  Caught(ParseScripts(rawData.v), len.v,
         IF ParseScripts(rawData.v).err # "" THEN len.off ELSE rawData.off)))

\* _readScripts: the length and the raw block are read outside the try
\* block.
ReadScripts(buf, off) ==
  Bind(readInt(buf, off), LAMBDA len :
  Bind(readBytes(buf, len.off, len.v), LAMBDA rawData :
  Caught(ParseScripts(rawData.v), len.v, rawData.off)))

(***************************************************************************)
(* The layout header, the variants and the footer.                         *)
(***************************************************************************)
\* The header _readLayoutHeader starts from.
EmptyHeader ==
  [Version |-> Num(0), GridSize |-> Num(10), ControlsHeaders |-> << >>,
   Files |-> << >>, DesignerScript |-> Arr(<< >>)]

\* The loop over the control entries: three cached strings each.
RECURSIVE ReadControlsLoop(_, _, _, _, _)
ReadControlsLoop(buf, off, cache, cCount, res) ==
  IF Len(res) >= cCount THEN Ok(res, off)
  ELSE IF Len(res) >= MaxLoop THEN Thrown("NoProgress", off)
  ELSE Bind(ReadCachedString(buf, off, cache), LAMBDA name :
       Bind(ReadCachedString(buf, name.off, cache), LAMBDA java :
       Bind(ReadCachedString(buf, java.off, cache), LAMBDA designer :
       ReadControlsLoop(buf, designer.off, cache, cCount,
         Append(res, [Name |-> name.v, JavaType |-> java.v,
                      DesignerType |-> designer.v])))))

\* The loop over the files: one string each.
RECURSIVE ReadFilesLoop(_, _, _, _)
ReadFilesLoop(buf, off, fCount, res) ==
  IF Len(res) >= fCount THEN Ok(res, off)
  ELSE IF Len(res) >= MaxLoop THEN Thrown("NoProgress", off)
  ELSE Bind(ReadString(buf, off), LAMBDA f :
       ReadFilesLoop(buf, f.off, fCount, Append(res, f.v)))

\* _readLayoutHeader from its statement reader.offset += 4 up to the files:
\* h being the header so far and off the offset after that statement, the
\* header with its grid size, control entries and files.
HeaderFields(buf, h, off) ==
  Bind(IF h.Version.num >= 4 THEN readInt(buf, off) ELSE Ok(h.GridSize.num, off),
       LAMBDA grid :
  Bind(LoadStringsCache(buf, grid.off), LAMBDA cache :
  Bind(readInt(buf, cache.off), LAMBDA cCount :
  Bind(ReadControlsLoop(buf, cCount.off, cache.v, cCount.v, << >>), LAMBDA controls :
  Bind(readInt(buf, controls.off), LAMBDA fCount :
  Bind(ReadFilesLoop(buf, fCount.off, fCount.v, << >>), LAMBDA files :
  Ok([h EXCEPT !.GridSize = Num(grid.v), !.ControlsHeaders = controls.v,
               !.Files = files.v],
     files.off)))))))

\* _readLayoutHeader from its statement reader.offset += 4 on, h being the
\* header so far and off the offset after that statement.  The result
\* tells besides the header where the length field of the script block was
\* read (scriptAt), the length read there (scriptLen) and whether the
\* script block could not be decoded (scriptFailed).
HeaderRest(buf, h, off) ==
  Bind(HeaderFields(buf, h, off), LAMBDA fields :
  Bind(ReadScripts(buf, fields.off), LAMBDA scripts :
  Ok([h |-> [fields.v EXCEPT !.DesignerScript = Arr(scripts.v.scripts)],
      scriptAt |-> fields.off, scriptLen |-> scripts.v.len,
      scriptFailed |-> scripts.v.failed],
     scripts.off)))

\* _readLayoutHeader without its early return: the header of a version
\* below 3 is read like that of version 3.
ReadLayoutHeaderUngated(buf) ==
  Bind(readInt(buf, 0), LAMBDA version :
  HeaderRest(buf, [EmptyHeader EXCEPT !.Version = Num(version.v)], version.off + 4))

\* _readLayoutHeader, from offset 0: h.Version = version, and a version
\* below 3 returns h as it is, no script block reached (scriptAt is -1).
ReadLayoutHeader(buf) ==
  Bind(readInt(buf, 0), LAMBDA version :
  IF version.v < 3
  THEN Ok([h |-> [EmptyHeader EXCEPT !.Version = Num(version.v)],
           scriptAt |-> -1, scriptLen |-> 0, scriptFailed |-> FALSE],
          version.off)
  ELSE HeaderRest(buf, [EmptyHeader EXCEPT !.Version = Num(version.v)],
                  version.off + 4))

\* The variant loop of convertBjlToJsonFromBytes.
RECURSIVE ReadVariantsLoop(_, _, _, _)
ReadVariantsLoop(buf, off, variantCount, res) ==
  IF Len(res) >= variantCount THEN Ok(res, off)
  ELSE IF Len(res) >= MaxLoop THEN Thrown("NoProgress", off)
  ELSE Bind(ReadVariant(buf, off), LAMBDA v :
       ReadVariantsLoop(buf, v.off, variantCount, Append(res, v.v)))

\* const variantCount = reader.readInt(); and the loop after it.
ReadVariants(buf, off) ==
  Bind(readInt(buf, off), LAMBDA variantCount :
  ReadVariantsLoop(buf, variantCount.off, variantCount.v, << >>))

\* The footer: four bytes of padding and the two flags.
ReadFooter(buf, off) ==
  Bind(readInt(buf, off), LAMBDA padding :
  Bind(readSignedByte(buf, padding.off), LAMBDA fa :
  Bind(readSignedByte(buf, fa.off), LAMBDA mi :
  Ok([FontAwesome |-> (fa.v = 1), MaterialIcons |-> (mi.v = 1)], mi.off))))

(***************************************************************************)
(* Encoding.  The writer is the sequence of the bytes written so far; an   *)
(* encoding step gives [err, bytes].                                       *)
(***************************************************************************)
Written(bytes) == [err |-> "", bytes |-> bytes]
EncThrown(e) == [err |-> e, bytes |-> << >>]

\* Two steps one after the other: what the first throws, else what the
\* second throws, else the bytes of both.
Join(a, b) ==
  IF a.err # "" THEN a
  ELSE IF b.err # "" THEN b
  ELSE Written(a.bytes \o b.bytes)

\* _writeString: the length in bytes and the UTF-8 bytes;
\* new TextEncoder().encode(s) encodes nothing for undefined.
WriteString(s) ==
  IntToBytes(Len(IF Is(s, "undef") THEN << >> ELSE TextEncode(JsString(s))))
    \o (IF Is(s, "undef") THEN << >> ELSE TextEncode(JsString(s)))

\* _writeCachedString: an empty cache writes the string itself; otherwise
\* the string must be an own property of the cache.
WriteCachedString(cache, s) ==
  IF Len(cache) = 0 THEN Written(WriteString(s))
  ELSE IF HasOwn(cache, JsString(s))
  THEN Written(IntToBytes(Get(cache, JsString(s)).num))
  ELSE EncThrown("CacheMiss")

\* if (!(s in cache)) { cache[s] = Object.keys(cache).length; order.push(s) }
\* on the pair c = [cache, order].
Collect(c, s) ==
  IF In(c.cache, JsString(s)) THEN c
  ELSE [cache |-> Set(c.cache, JsString(s), Num(Len(c.cache))),
        order |-> Append(c.order, s)]

\* The own properties Object.keys walks: those of an object, the indices of
\* an array.
PairsOf(x) ==
  IF Is(x, "arr") THEN [i \in 1..Len(x.arr) |-> << Digits(i - 1), x.arr[i] >>]
  ELSE x.obj

\* val[k] for one of the names ValueType and Value
Field(val, k) == IF Is(val, "obj") THEN Get(val.obj, k) ELSE Undefined

\* typeof val === 'object' && val !== null
IsObject(val) == Is(val, "obj") \/ Is(val, "arr")

\* _collectStringsInOrder(data, cache, order), on the pair c; i is the next
\* item or property of data to visit.  CollectValue is what the loop does
\* with the value of a property once its key is collected.
RECURSIVE CollectStrings(_, _, _)
CollectValue(val, c) ==
  IF IsObject(val)
  THEN IF Is(Field(val, Text.ValueType), "undef") THEN CollectStrings(val, c, 1)
       ELSE IF /\ Field(val, Text.ValueType) = Num(TYPE_CODES.CSTRING)
               /\ Is(Field(val, Text.Value), "str")
       THEN Collect(c, Field(val, Text.Value))
       ELSE c
  ELSE IF Is(val, "str") THEN Collect(c, val)
  ELSE c

CollectStrings(data, c, i) ==
  IF ~IsObject(data) THEN c
  ELSE IF Is(data, "arr")
  THEN IF i > Len(data.arr) THEN c
       ELSE CollectStrings(data, CollectStrings(data.arr[i], c, 1), i + 1)
  ELSE IF i > Len(data.obj) THEN c
  ELSE CollectStrings(data,
                      CollectValue(data.obj[i][2], Collect(c, Str(data.obj[i][1]))),
                      i + 1)

\* _hexToBytes: the hexadecimal digits of the text, two to a byte; a last
\* single digit is dropped.
HexToBytes(hex) ==
  LET IsHex(c) == (c >= 48 /\ c <= 57) \/ (c >= 65 /\ c <= 70) \/ (c >= 97 /\ c <= 102)
      HexValue(c) == IF c <= 57 THEN c - 48 ELSE IF c <= 70 THEN c - 55 ELSE c - 87
      clean == SelectSeq(hex, IsHex)
  IN  [i \in 1..(Len(clean) \div 2) |->
         16 * HexValue(clean[2 * i - 1]) + HexValue(clean[2 * i])]

\* _shortsToBytes
RECURSIVE ShortsToBytes(_)
ShortsToBytes(shorts) ==
  IF shorts = << >> THEN << >>
  ELSE ShortToBytes(IF Is(shorts[1], "num") THEN shorts[1].num ELSE 0)
         \o ShortsToBytes(Tail(shorts))

\* writer.writeByte(v) for a value v: v & 0xff
ByteOf(x) == IF Is(x, "num") THEN x.num % 256 ELSE IF x = Bool(TRUE) THEN 1 ELSE 0

\* The switch of _writeMap on the tag b of a tagged value: what is written
\* after the tag byte.
TaggedPayload(b, value) ==
  IF b = Num(TYPE_CODES.CSTRING) THEN Written(WriteString(value))
  ELSE IF b = Num(TYPE_CODES.CFLOAT)
  THEN Written(IF Is(value, "num") \/ Is(value, "f32") THEN NumToF32(value)
               ELSE NaNBytes)
  ELSE IF b = Num(TYPE_CODES.CCOLOR)
  THEN Written(HexToBytes(SubSeq(JsString(value), 3, Len(JsString(value)))))
  ELSE IF b = Num(TYPE_CODES.RECT32)
  THEN IF Is(value, "arr") THEN Written(ShortsToBytes(value.arr))
       ELSE EncThrown("TypeError")
  ELSE Written(<< >>)

\* _writeMap(writer, m, cache), from property i of m on, for a converter
\* whose toBil is bil.  WriteValue is what an iteration writes after the
\* key.
RECURSIVE WriteMap(_, _, _, _)
WriteValue(val, cache, bil) ==
  IF IsObject(val)
  THEN IF ~Is(Field(val, Text.ValueType), "undef")
       THEN Join(Written(<< ByteOf(Field(val, Text.ValueType)) >>),
                 TaggedPayload(Field(val, Text.ValueType), Field(val, Text.Value)))
       ELSE Join(Written(<< TYPE_CODES.CMAP >>),
                 Join(WriteMap(PairsOf(val), cache, bil, 1),
                      Written(WriteString(Str(<< >>)) \o << TYPE_CODES.ENDOFMAP >>)))
  ELSE IF Is(val, "num") THEN Written(<< TYPE_CODES.CINT >> \o IntToBytes(val.num))
  ELSE IF Is(val, "str")
  THEN Join(Written(<< TYPE_CODES.CACHED_STRING >>), WriteCachedString(cache, val))
  ELSE IF Is(val, "bool")
  THEN Written(<< TYPE_CODES.BOOL, IF val.bool THEN 1 ELSE 0 >>)
  ELSE IF Is(val, "null") THEN Written(<< TYPE_CODES.CNULL >>)
  ELSE EncThrown("Unsupported")

\* With toBil, an object whose ValueType is CNULL or RECT32 is skipped.
WriteMap(m, cache, bil, i) ==
  IF i > Len(m) THEN Written(<< >>)
  ELSE IF /\ bil
          /\ IsObject(m[i][2])
          /\ Field(m[i][2], Text.ValueType)
               \in { Num(TYPE_CODES.CNULL), Num(TYPE_CODES.RECT32) }
  THEN WriteMap(m, cache, bil, i + 1)
  ELSE Join(Join(WriteCachedString(cache, Str(m[i][1])),
                 WriteValue(m[i][2], cache, bil)),
            WriteMap(m, cache, bil, i + 1))

\* x || dflt for a number or missing field x
OrNum(x, dflt) ==
  IF FalsyNumber(x) \/ ~(Is(x, "num") \/ Is(x, "f32")) THEN Num(dflt) ELSE x

\* The length prefix _writeBinaryString writes: 7 bits per byte, least
\* significant first, the high bit set on every byte but the last.
RECURSIVE LengthPrefix(_)
LengthPrefix(len) ==
  IF len \div 128 = 0 THEN << len % 128 >>
  ELSE << (len % 128) + 128 >> \o LengthPrefix(len \div 128)

\* _writeBinaryString(writer, scriptsCopy[i] || ""), i counting from 1 and
\* the scripts being strings: the prefix counts the code units of the text,
\* the bytes written after it are its UTF-8 encoding.
WriteBinaryString(scripts, i) ==
  IF i <= Len(scripts) /\ Is(scripts[i], "str")
  THEN LengthPrefix(Len(scripts[i].str)) \o TextEncode(scripts[i].str)
  ELSE LengthPrefix(0)

\* _writeVariant
WriteVariant(v) ==
  NumToF32(OrNum(v.Scale, 1)) \o IntToBytes(OrNum(v.Width, 0).num)
    \o IntToBytes(OrNum(v.Height, 0).num)

\* The loop of _writeScripts: each variant followed by its script.
RECURSIVE WriteVariantScripts(_, _, _)
WriteVariantScripts(scripts, variants, i) ==
  IF i > Len(variants) THEN << >>
  ELSE WriteVariant(variants[i]) \o WriteBinaryString(scripts, i + 1)
         \o WriteVariantScripts(scripts, variants, i + 1)

\* _writeScripts(scripts, variants)
WriteScripts(scripts, variants) ==
  Gzip(WriteBinaryString(scripts, 1) \o IntToBytes(Len(variants))
         \o WriteVariantScripts(scripts, variants, 1))

\* The cache _writeLayoutHeader builds from the control entries.
RECURSIVE HeaderCache(_, _)
HeaderCache(controls, c) ==
  IF controls = << >> THEN c
  ELSE HeaderCache(Tail(controls),
         Collect(Collect(Collect(c, controls[1].Name), controls[1].JavaType),
                 controls[1].DesignerType))

\* The three references written for each control entry.
RECURSIVE WriteControls(_, _)
WriteControls(controls, cache) ==
  IF controls = << >> THEN Written(<< >>)
  ELSE Join(Join(WriteCachedString(cache, controls[1].Name),
                 Join(WriteCachedString(cache, controls[1].JavaType),
                      WriteCachedString(cache, controls[1].DesignerType))),
            WriteControls(Tail(controls), cache))

\* The count and a _writeString for each string: the header's cache keys
\* and files, and _writeStringsCacheInOrder.
RECURSIVE WriteStrings(_, _)
WriteStrings(strings, i) ==
  IF i = 0 THEN IntToBytes(Len(strings)) \o WriteStrings(strings, 1)
  ELSE IF i > Len(strings) THEN << >>
  ELSE WriteString(strings[i]) \o WriteStrings(strings, i + 1)

\* scriptBytes in _writeLayoutHeader: the compressed scripts for a list,
\* nothing for a missing DesignerScript.
ScriptBytes(header, variants) ==
  IF Is(header.DesignerScript, "arr") THEN WriteScripts(header.DesignerScript.arr, variants)
  ELSE << >>

\* What _writeLayoutHeader writes after the length field, cache being the
\* cache built from the control entries: its strings in Object.keys order,
\* the control entries, the files, and the script block with its length.
HeaderBody(header, variants, version, cache) ==
  Join(Written((IF version >= 4 THEN IntToBytes(OrNum(header.GridSize, 10).num)
                ELSE << >>)
                 \o WriteStrings([i \in 1..Len(cache) |-> Str(cache[i][1])], 0)
                 \o IntToBytes(Len(header.ControlsHeaders))),
       Join(WriteControls(header.ControlsHeaders, cache),
            Written(WriteStrings(header.Files, 0)
                      \o IntToBytes(Len(ScriptBytes(header, variants)))
                      \o ScriptBytes(header, variants))))

\* _writeLayoutHeader(header, writer, variants): the version, the length
\* field, which updateInt sets to the number of bytes written after it, and
\* those bytes.
WriteLayoutHeader(header, variants) ==
  LET body == HeaderBody(header, variants, OrNum(header.Version, 4).num,
                         HeaderCache(header.ControlsHeaders,
                                     [cache |-> << >>, order |-> << >>]).cache)
  IN  IF body.err # "" THEN body
      ELSE Written(IntToBytes(OrNum(header.Version, 4).num)
                     \o IntToBytes(Len(body.bytes)) \o body.bytes)

\* json.Data || {}
DataOf(data) == IF IsObject(data) THEN data ELSE Obj(<< >>)

\* The concatenation of the byte strings of a list of sections <<name, bytes>>.
RECURSIVE Flatten(_)
Flatten(sections) ==
  IF sections = << >> THEN << >> ELSE sections[1][2] \o Flatten(Tail(sections))

\* _writeAllLayout copying the temporary writer to the writer before the
\* collected strings.
LayoutOfTempFirst(variants, order, map) ==
  IF map.err # "" THEN [err |-> map.err, sections |-> << >>]
  ELSE [err |-> "",
        sections |->
          << << "VariantCount", IntToBytes(Len(variants)) >>,
             << "Variants",
                Flatten([i \in 1..Len(variants) |-> << i, WriteVariant(variants[i]) >>]) >>,
             << "BodyStringTable", WriteStrings(order, 0) >>,
             << "BodyMap", map.bytes >>,
             << "Sentinel", WriteString(Str(<< >>)) \o << TYPE_CODES.ENDOFMAP >> >>,
             << "Padding", IntToBytes(0) >> >>]

\* What _writeAllLayout writes, as sections <<name, bytes>> in order, order
\* being the strings collected and map what _writeMap gave: the collected
\* strings go to the writer first, then the temporary writer that holds the
\* variants, the map and its end, then four zero bytes.
LayoutOf(variants, order, map) ==
  IF map.err # "" THEN [err |-> map.err, sections |-> << >>]
  ELSE [err |-> "",
        sections |->
          << << "BodyStringTable", WriteStrings(order, 0) >>,
             << "VariantCount", IntToBytes(Len(variants)) >>,
             << "Variants",
                Flatten([i \in 1..Len(variants) |-> << i, WriteVariant(variants[i]) >>]) >>,
             << "BodyMap", map.bytes >>,
             << "Sentinel", WriteString(Str(<< >>)) \o << TYPE_CODES.ENDOFMAP >> >>,
             << "Padding", IntToBytes(0) >> >>]

\* _writeAllLayout(writer, variants, data), for a converter whose toBil is
\* bil.
WriteAllLayout(variants, data, bil) ==
  LET c == CollectStrings(data, [cache |-> << >>, order |-> << >>], 1)
  IN  LayoutOf(variants, c.order, WriteMap(PairsOf(data), c.cache, bil, 1))

\* convertJsonToBjlToBytes(json), for a converter built with toBil = bil:
\* [err, sections], the sections being what is written, in order.
EncodeSections(json, bil) ==
  LET header == WriteLayoutHeader(json.LayoutHeader, json.Variants)
      layout == WriteAllLayout(json.Variants, DataOf(json.Data), bil)
  IN  IF header.err # "" THEN [err |-> header.err, sections |-> << >>]
      ELSE IF layout.err # "" THEN layout
      ELSE [err |-> "",
            sections |->
              << << "Header", header.bytes >> >> \o layout.sections
                \o << << "FlagA", << IF json.FontAwesome THEN 1 ELSE 0 >> >>,
                      << "FlagB", << IF json.MaterialIcons THEN 1 ELSE 0 >> >> >>]

\* The place of each section in the buffer: [name, from, to], the section
\* being the bytes from offset `from` up to offset `to`.
RECURSIVE Ranges(_, _)
Ranges(sections, from) ==
  IF sections = << >> THEN << >>
  ELSE << [name |-> sections[1][1], from |-> from, to |-> from + Len(sections[1][2])] >>
         \o Ranges(Tail(sections), from + Len(sections[1][2]))

(***************************************************************************)
(* The documents given to encode.                                          *)
(***************************************************************************)
\* The code units of the letters and digits the documents are written
\* with.
Char ==
  [a |-> 97, b |-> 98, f |-> 102, g |-> 103, h |-> 104, l |-> 108, m |-> 109,
   n |-> 110, r |-> 114, s |-> 115, u |-> 117, x |-> 120, y |-> 121, z |-> 122,
   one |-> 49, two |-> 50]

Header(version, grid, controls, files, scripts) ==
  [Version |-> version, GridSize |-> grid, ControlsHeaders |-> controls,
   Files |-> files, DesignerScript |-> scripts]

\* The base document: version 4, one control entry, one file, a general
\* script and the script of its one variant, the body { x: 5, l: "h" }.
BaseDocument ==
  [LayoutHeader |->
     Header(Num(4), Num(8),
            << [Name |-> Str(<< Char.a >>), JavaType |-> Str(<< Char.b >>),
                DesignerType |-> Str(<< Char.a >>)] >>,
            << Str(<< Char.f >>) >>,
            Arr(<< Str(<< Char.g >>), Str(<< Char.s >>) >>)),
   Variants |-> << [Scale |-> Num(1), Width |-> Num(320), Height |-> Num(480)] >>,
   Data |-> Obj(<< << << Char.x >>, Num(5) >>, << << Char.l >>, Str(<< Char.h >>) >> >>),
   FontAwesome |-> TRUE,
   MaterialIcons |-> FALSE]

\* An object is its properties in the order Object.keys gives them: the
\* object made by assigning the entries one after the other to obj.
RECURSIVE FromEntries(_, _)
FromEntries(entries, obj) ==
  IF entries = << >> THEN obj
  ELSE FromEntries(Tail(entries), Set(obj, entries[1][1], entries[1][2]))

\* Entries in the order they are inserted: b, then "2", then "1".
Inserted ==
  << << << Char.b >>, Str(<< Char.b >>) >>, << << Char.two >>, Num(2) >>,
     << << Char.one >>, Str(<< Char.a >>) >> >>

\* A body with a Null, a Rect, an integer, and a nested map of a Null and a
\* boolean.
NestedBody ==
  Obj(<< << << Char.n >>, TaggedOnly(TYPE_CODES.CNULL) >>,
         << << Char.r >>,
            Tagged(TYPE_CODES.RECT32, Arr(<< Num(1), Num(-2), Num(3), Num(4) >>)) >>,
         << << Char.x >>, Num(-7) >>,
         << << Char.m >>, Obj(<< << << Char.n >>, TaggedOnly(TYPE_CODES.CNULL) >>,
                                 << << Char.y >>, Bool(FALSE) >> >>) >> >>)

\* A map one of whose keys is "ValueType": { ValueType: 5, x: 1 }.
ValueTypeKeyMap == Obj(<< << Text.ValueType, Num(5) >>, << << Char.x >>, Num(1) >> >>)

\* The bodies: native values, tagged values (the color "0x1A2B3C4D", the
\* float 0.5), Null and Rect values at two depths, a native null, a negative
\* integer alone, a nested map with the key "ValueType", keys that are
\* array indices, a key that every object inherits.
Bodies ==
  { BaseDocument.Data,
    Obj(<< >>),
    Obj(<< << << Char.a >>,
              Tagged(TYPE_CODES.CCOLOR, Str(<< 48, 120, 49, 65, 50, 66, 51, 67, 52, 68 >>)) >>,
           << << Char.f >>, Tagged(TYPE_CODES.CFLOAT, F32(<< 0, 0, 0, 63 >>)) >>,
           << << Char.s >>, Tagged(TYPE_CODES.CSTRING, Str(<< Char.u >>)) >>,
           << << Char.y >>, Bool(TRUE) >> >>),
    NestedBody,
    Obj(<< << << Char.m >>, ValueTypeKeyMap >> >>),
    Obj(<< << << Char.z >>, Null >>, << << Char.x >>, Num(1) >> >>),
    Obj(<< << << Char.x >>, Num(-9) >> >>),
    Obj(FromEntries(Inserted, << >>)),
    Obj(<< << Text.toString, Num(5) >> >>),
    Obj(<< << << Char.x >>, Num(5) >>, << Text.toString, Num(6) >> >>),
    Obj(<< << << Char.x >>, Num(5) >>, << << Char.l >>, Str(Text.toString) >> >>),
    Obj(<< << << Char.x >>, Num(-2147483647) >>, << << Char.l >>, Str(<< 233, Char.h >>) >>,
           << << Char.y >>, Str(<< >>) >> >>) }

\* The headers: versions 2, 3, 4 and none, grid sizes, control entries that
\* share strings, a control entry whose strings look like integers, no files
\* and two, scripts given, empty and missing, a script with a character
\* of two UTF-8 bytes.
Headers ==
  { BaseDocument.LayoutHeader,
    Header(Num(3), Num(8), << >>, << >>, Arr(<< Str(<< Char.g >>), Str(<< Char.s >>) >>)),
    Header(Num(2), Num(8), << >>, << >>, Arr(<< >>)),
    Header(Undefined, Undefined, << >>, << >>, Undefined),
    Header(Num(4), Num(8), << >>, << >>, Arr(<< >>)),
    Header(Num(5), Num(0),
           << [Name |-> Str(<< Char.a >>), JavaType |-> Str(<< Char.b >>),
               DesignerType |-> Str(<< Char.g >>)],
              [Name |-> Str(<< Char.b >>), JavaType |-> Str(<< Char.b >>),
               DesignerType |-> Str(<< Char.a >>)] >>,
           << Str(<< Char.f >>), Str(<< Char.g >>) >>, Arr(<< Str(<< Char.g >>) >>)),
    Header(Num(4), Num(8),
           << [Name |-> Str(<< Char.two >>), JavaType |-> Str(<< Char.b >>),
               DesignerType |-> Str(<< Char.one >>)] >>,
           << >>, Arr(<< Str(<< Char.g >>) >>)),
    Header(Num(4), Num(8), << >>, << >>, Arr(<< Str(<< 233 >>), Str(<< Char.s >>) >>)) }

VariantLists ==
  { BaseDocument.Variants,
    << >>,
    << [Scale |-> F32(<< 0, 0, 0, 63 >>), Width |-> Num(1), Height |-> Num(2)],
       [Scale |-> Num(2), Width |-> Num(0), Height |-> Num(4)] >> }

\* A document built by hand: version 4, a grid size, no control entries, no
\* files and no scripts, at least one variant, a body of integers and strings.
HandBuilt(doc) ==
  /\ doc.LayoutHeader.Version = Num(4)
  /\ Is(doc.LayoutHeader.GridSize, "num")
  /\ doc.LayoutHeader.ControlsHeaders = << >>
  /\ doc.LayoutHeader.Files = << >>
  /\ doc.LayoutHeader.DesignerScript = Arr(<< >>)
  /\ doc.Variants # << >>
  /\ \A i \in 1..Len(doc.Data.obj) :
       Is(doc.Data.obj[i][2], "num") \/ Is(doc.Data.obj[i][2], "str")

\* The documents: each body, each header and each variant list with the
\* rest of the base document, and the documents built by hand.
Documents ==
  { [BaseDocument EXCEPT !.Data = b] : b \in Bodies }
    \cup { [BaseDocument EXCEPT !.LayoutHeader = h] : h \in Headers }
    \cup { [BaseDocument EXCEPT !.Variants = v, !.FontAwesome = FALSE,
                                !.MaterialIcons = TRUE] : v \in VariantLists }
    \cup { d \in { [BaseDocument EXCEPT !.LayoutHeader = h, !.Data = b, !.Variants = v] :
                     h \in Headers, b \in Bodies, v \in VariantLists } : HandBuilt(d) }

(***************************************************************************)
(* The buffers handed to decode that encode did not write: a buffer with   *)
(* one byte changed, a buffer cut short, a buffer cut short whose last     *)
(* byte is changed, and a file of another tool whose script block was      *)
(* written for another list of variants.                                   *)
(***************************************************************************)
\* The byte values a changed byte takes.
TamperBytes == { 0, 2, 8, 255 }

\* The documents whose encoding is also handed over changed or cut short:
\* the base document, the one without lists in its header, the one whose
\* body is { x: -9 }, the one whose body has a nested map, and the ones
\* whose body begins with a colour.
TamperDocuments ==
  { BaseDocument,
    [BaseDocument EXCEPT !.Data = Obj(<< << << Char.x >>, Num(-9) >> >>)],
    [BaseDocument EXCEPT !.Data = NestedBody],
    [BaseDocument EXCEPT !.LayoutHeader =
                           Header(Num(4), Num(8), << >>, << >>, Arr(<< >>))] }
    \cup { d \in Documents :
             /\ d.Data.obj # << >>
             /\ Field(d.Data.obj[1][2], Text.ValueType) = Num(TYPE_CODES.CCOLOR) }

\* The file of another tool for the document doc: its script block lists
\* the given variants, the rest is what this encoder writes.
ForeignBuffer(doc, variants) ==
  WriteLayoutHeader(doc.LayoutHeader, variants).bytes
    \o Flatten(WriteAllLayout(doc.Variants, DataOf(doc.Data), FALSE).sections)
    \o << 1, 0 >>

\* The file of another tool whose body is { m: { ValueType: 5, x: 1 } }, the
\* nested map written as a map: the strings m, ValueType and x, and the
\* pairs m -> CMAP (ValueType -> CINT 5, x -> CINT 1, end), end.
ForeignNestedBuffer ==
  WriteLayoutHeader(BaseDocument.LayoutHeader, BaseDocument.Variants).bytes
    \o Flatten(LayoutOf(BaseDocument.Variants,
                        << Str(<< Char.m >>), Str(Text.ValueType), Str(<< Char.x >>) >>,
                        Written(IntToBytes(0) \o << TYPE_CODES.CMAP >>
                                  \o IntToBytes(1) \o << TYPE_CODES.CINT >> \o IntToBytes(5)
                                  \o IntToBytes(2) \o << TYPE_CODES.CINT >> \o IntToBytes(1)
                                  \o IntToBytes(0) \o << TYPE_CODES.ENDOFMAP >>)).sections)
    \o << 1, 0 >>

\* The buffers given to a BinaryReader on its own, and the lengths asked of
\* its readBytes.
ReaderBuffers == { [i \in 1..n |-> 16 * i + 1] : n \in 0..6 }
ReadLengths == (-2)..5

\* The calls of renameComponentsInBjlJson.  The parsed documents: strings
\* with the name "ab" as a token, inside longer identifiers, next to '_',
\* '.', ' ', '-' and digits; a number, a boolean, null; arrays and objects
\* with such strings as keys and values at two depths, and an object two of
\* whose keys get one name.  The rename maps: two names, a new name that is
\* an old name of the map, a name that begins another, an empty name and a
\* new name that is a number, no name but the empty one, and no map.
RenameCalls ==
  { [node |-> node, map |-> map, out |-> Undefined, err |-> ""] :
      node \in
      { Str(t) : t \in { << >>, << 97, 98 >>, << 97, 98, 120 >>, << 120, 97, 98 >>,
                           << 97, 98, 46, 103 >>, << 97, 98, 32, 97, 98 >>, << 95, 97, 98 >>,
                           << 97, 98, 95 >>, << 97, 98, 49 >>, << 65, 98 >>,
                           << 97, 98, 45, 97, 98, 46, 97, 98 >>, << 103, 97, 98, 32, 103 >>,
                           << 97 >> } }
          \cup { Num(7), Bool(TRUE), Null,
                 Arr(<< Str(<< 97, 98 >>), Num(1),
                        Obj(<< << << 103 >>, Str(<< 120, 97, 98, 32, 97, 98 >>) >> >>) >>),
                 Obj(<< << << 97, 98 >>,
                           Obj(<< << << 97, 98 >>, Str(<< 97, 98, 46, 103 >>) >>,
                                  << << 120 >>, Arr(<< Str(<< 103 >>), Null >>) >> >>) >>,
                        << << 97, 98, 120 >>, Bool(FALSE) >> >>),
                 Obj(<< << << 97, 98 >>, Num(1) >>, << << 104, 108 >>, Num(2) >> >>) },
      map \in
      { Obj(<< << << 97, 98 >>, Str(<< 104, 108 >>) >>, << << 103 >>, Str(<< 122 >>) >> >>),
          Obj(<< << << 97, 98 >>, Str(<< 103 >>) >>, << << 103 >>, Str(<< 97, 98, 46, 120 >>) >> >>),
          Obj(<< << << 97 >>, Str(<< 110 >>) >>, << << 97, 98 >>, Str(<< 109 >>) >> >>),
          Obj(<< << << >>, Str(<< 122 >>) >>, << << 97, 98 >>, Num(5) >> >>),
          Obj(<< << << >>, Str(<< 122 >>) >> >>),
          Null } }

(***************************************************************************)
(* The state: one converter, the document json given to its encode, the    *)
(* bytes encode returned (sent, with layout the place of each section in   *)
(* them), the buffer handed to decode (bytes), the reader's offset, the    *)
(* body string cache and the document decode is assembling (design), with  *)
(* consumed the sections decode has read so far.                           *)
(***************************************************************************)
VARIABLES
  json,       \* the document given to convertJsonToBjlToBytes
  toBil,      \* the converter's toBil flag
  sent,       \* the bytes convertJsonToBjlToBytes returned
  layout,     \* the sections of sent: [name, from, to]
  bytes,      \* the buffer given to convertBjlToJsonFromBytes, or to a reader
  wire,       \* how bytes came from sent: "intact", "changed", "cut", ...
  changedAt,  \* the offset of the changed byte, the length kept, or -1
  offset,     \* reader.offset
  cache,      \* the body string cache of the decode
  design,     \* the document the decode is building
  consumed,   \* the sections the decode has read: [name, from, to]
  script,     \* what _readScripts met: [at, len, failed]
  mapEnd,     \* how the body's _readMap ended: [stop, n, keyAt, unknown, after]
  read,       \* the last read of a BinaryReader on its own
  pc,         \* the next step
  error,      \* "" or what the call threw
  round       \* the number of documents decode has returned

\* The state of the classes used on their own.
VARIABLES
  writer,     \* a BinaryWriter: [mem, buffer, view, offset, err]
  written,    \* the bytes the write calls on writer were given, in call order
  reserved,   \* the int32 field reserved on writer: [at, in, end], at = -1 for none
  calls,      \* two calls in progress on converters, each with what it holds
  renaming,   \* a call of renameComponentsInBjlJson: [node, map, out, err]
  menu,       \* a ContextMenu: [heap, items, nodeMap, last]
  sheet,      \* a DaisySheetModal: [modal, open, transform, clickable, ..., asked]
  otp         \* an OtpInput: [length, type, inputs, value, last]

\* The variables of the converter, and those of the classes on their own
codec ==
  << json, toBil, sent, layout, bytes, wire, changedAt, offset, cache, design,
     consumed, script, mapEnd, read, pc, error, round >>

parts == << writer, written, reserved, calls, renaming, menu, sheet, otp >>

vars == << codec, parts >>

\* const design = { LayoutHeader: header, Variants: [], Data: {}, ... }
EmptyDesign(header) ==
  [LayoutHeader |-> header, Variants |-> << >>, Data |-> Obj(<< >>),
   FontAwesome |-> FALSE, MaterialIcons |-> FALSE]

\* Nothing was encoded, handed over, decoded or read yet.
Idle ==
  /\ sent = << >>
  /\ layout = << >>
  /\ wire = "none"
  /\ changedAt = -1
  /\ offset = 0
  /\ cache = << >>
  /\ design = EmptyDesign(EmptyHeader)
  /\ consumed = << >>
  /\ script = [at |-> -1, len |-> 0, failed |-> FALSE]
  /\ mapEnd = [stop |-> "", n |-> 0, keyAt |-> -1, unknown |-> -1, after |-> 0]
  /\ read = [op |-> "", len |-> 0, before |-> 0, ok |-> TRUE, got |-> 0]
  /\ error = ""
  /\ round = 0

(***************************************************************************)
(* Calls in progress.  A call holds what the method's constants and the    *)
(* objects made for it hold: the reader's offset, the string cache, the    *)
(* document being built, the bytes written.  Converter 1 was built with    *)
(* toBil = false, converter 2 with toBil = true.  A call goes on a section *)
(* at a time, so that the calls of a page interleave at least as much as   *)
(* the awaits of the code let them.                                        *)
(***************************************************************************)
\* The call of kind "encode" (convertJsonToBjlToBytes(doc)), "bytes"
\* (convertBjlToJsonFromBytes of the bytes of doc) or "file"
\* (convertBjlToJsonFromFile of a file of these bytes) on converter conv, as
\* it begins.
Frame(kind, conv, doc) ==
  [kind |-> kind, conv |-> conv, doc |-> doc,
   arg |-> IF kind = "encode" THEN doc ELSE Flatten(EncodeSections(doc, FALSE).sections),
   pc |-> IF kind = "encode" THEN "encode" ELSE IF kind = "file" THEN "file" ELSE "header",
   offset |-> 0, cache |-> << >>, design |-> EmptyDesign(EmptyHeader), out |-> << >>,
   err |-> ""]

\* The next section of the call f.
StepOf(f) ==
  IF f.pc = "file" THEN [f EXCEPT !.pc = "header"]
  ELSE IF f.pc = "header"
  THEN Then(ReadLayoutHeader(f.arg), LAMBDA h :
           IF h.err # "" THEN [f EXCEPT !.pc = "failed", !.err = h.err, !.offset = h.off]
           ELSE IF h.v.h.Version.num < 3
           THEN [f EXCEPT !.pc = "failed", !.err = "UnsupportedVersion", !.offset = h.off]
           ELSE [f EXCEPT !.pc = "strings", !.offset = h.off, !.design = EmptyDesign(h.v.h)])
  ELSE IF f.pc = "strings"
  THEN Then(LoadStringsCache(f.arg, f.offset), LAMBDA c :
           IF c.err # "" THEN [f EXCEPT !.pc = "failed", !.err = c.err, !.offset = c.off]
           ELSE [f EXCEPT !.pc = "variants", !.offset = c.off, !.cache = c.v])
  ELSE IF f.pc = "variants"
  THEN Then(ReadVariants(f.arg, f.offset), LAMBDA v :
           IF v.err # "" THEN [f EXCEPT !.pc = "failed", !.err = v.err, !.offset = v.off]
           ELSE [f EXCEPT !.pc = "map", !.offset = v.off, !.design.Variants = v.v])
  ELSE IF f.pc = "map"
  THEN Then(ReadMap(f.arg, f.offset, f.cache), LAMBDA m :
           IF m.err # "" THEN [f EXCEPT !.pc = "failed", !.err = m.err, !.offset = m.off]
           ELSE [f EXCEPT !.pc = "footer", !.offset = m.off, !.design.Data = Obj(m.v.map)])
  ELSE IF f.pc = "footer"
  THEN Then(ReadFooter(f.arg, f.offset), LAMBDA t :
           IF t.err # "" THEN [f EXCEPT !.pc = "failed", !.err = t.err, !.offset = t.off]
           ELSE [f EXCEPT !.pc = "done", !.offset = t.off,
                          !.design.FontAwesome = t.v.FontAwesome,
                          !.design.MaterialIcons = t.v.MaterialIcons])
  ELSE IF f.pc = "encode"
  THEN Then(WriteLayoutHeader(f.arg.LayoutHeader, f.arg.Variants), LAMBDA h :
           IF h.err # "" THEN [f EXCEPT !.pc = "failed", !.err = h.err]
           ELSE [f EXCEPT !.pc = "layout", !.out = h.bytes])
  ELSE IF f.pc = "layout"
  THEN Then(WriteAllLayout(f.arg.Variants, DataOf(f.arg.Data), f.conv = 2), LAMBDA a :
           IF a.err # "" THEN [f EXCEPT !.pc = "failed", !.err = a.err]
           ELSE [f EXCEPT !.pc = "flags", !.out = @ \o Flatten(a.sections)])
  ELSE IF f.pc = "flags"
  THEN [f EXCEPT !.pc = "done",
                 !.out = @ \o << IF f.arg.FontAwesome THEN 1 ELSE 0,
                                 IF f.arg.MaterialIcons THEN 1 ELSE 0 >>]
  ELSE f

\* The call f run to its end with no other call in between.
RECURSIVE Alone(_)
Alone(f) == IF f.pc \in { "done", "failed" } THEN f ELSE Alone(StepOf(f))

\* Call c going on by a section with what is held for call 1.
CallStepShared(c) ==
  /\ pc = "calls"
  /\ calls[c].pc \notin { "done", "failed" }
  /\ LET g == StepOf([calls[c] EXCEPT !.offset = calls[1].offset, !.cache = calls[1].cache,
                                      !.design = calls[1].design, !.out = calls[1].out])
     IN  calls' = [[calls EXCEPT ![1].offset = g.offset, ![1].cache = g.cache,
                                 ![1].design = g.design, ![1].out = g.out]
                     EXCEPT ![c] = g]
  /\ UNCHANGED << codec, writer, written, reserved, renaming, menu, sheet, otp >>

\* Call c goes on by a section.
CallStep(c) ==
  /\ pc = "calls"
  /\ calls[c].pc \notin { "done", "failed" }
  /\ calls' = [calls EXCEPT ![c] = StepOf(calls[c])]
  /\ UNCHANGED << codec, writer, written, reserved, renaming, menu, sheet, otp >>

(***************************************************************************)
(* BJLJsonRenamer.  A rename map is an object, its entries in the order    *)
(* Object.entries gives them; the names are strings of code units.         *)
(***************************************************************************)
\* normalizeRenameMap(renameMap): [err, entries], the entries with a name
\* that is not empty, the new names as strings, longer names first and
\* names of one length in the order of the map.
normalizeRenameMap(renameMap) ==
  IF ~Is(renameMap, "obj") THEN [err |-> "TypeError", entries |-> << >>]
  ELSE LET kept == SelectSeq(renameMap.obj, LAMBDA e : Len(e[1]) > 0)
           longest == CHOOSE n \in { Len(kept[i][1]) : i \in 1..Len(kept) } \cup { 0 } :
                        \A i \in 1..Len(kept) : Len(kept[i][1]) <= n
       IN  IF kept = << >> THEN [err |-> "Error", entries |-> << >>]
           ELSE [err |-> "",
                 entries |->
                   Concat([k \in 1..longest |->
                             SelectSeq([i \in 1..Len(kept) |->
                                          << kept[i][1], JsString(kept[i][2]) >>],
                                       LAMBDA e : Len(e[1]) = longest + 1 - k)],
                          1, longest)]

\* input.replace(re, ...) with the prefix group but without the lookahead
\* (?=[^\w]|$).
RECURSIVE ReplaceFromNoLookahead(_, _, _, _)
ReplaceFromNoLookahead(input, oldName, newName, i) ==
  LET word(c) == c \in (48..57) \cup (65..90) \cup (97..122) \cup { 95 }
      here(at) == /\ at + Len(oldName) - 1 <= Len(input)
                  /\ SubSeq(input, at, at + Len(oldName) - 1) = oldName
  IN  IF i > Len(input) THEN << >>
      ELSE IF i = 1 /\ here(1)
      THEN newName \o ReplaceFromNoLookahead(input, oldName, newName, 1 + Len(oldName))
      ELSE IF ~word(input[i]) /\ here(i + 1)
      THEN << input[i] >> \o newName
             \o ReplaceFromNoLookahead(input, oldName, newName, i + 1 + Len(oldName))
      ELSE << input[i] >> \o ReplaceFromNoLookahead(input, oldName, newName, i + 1)

\* input.replace(re, (_, prefix) => prefix + newName) for the global regular
\* expression (^|[^\w])oldName(?=[^\w]|$), from code unit i of input on: a
\* match begins at the start of the input or with a character outside
\* [A-Za-z0-9_], which it keeps; the search goes on after the match.
RECURSIVE ReplaceFrom(_, _, _, _)
ReplaceFrom(input, oldName, newName, i) ==
  LET word(c) == c \in (48..57) \cup (65..90) \cup (97..122) \cup { 95 }
      here(at) == /\ at + Len(oldName) - 1 <= Len(input)
                  /\ SubSeq(input, at, at + Len(oldName) - 1) = oldName
                  /\ at + Len(oldName) > Len(input) \/ ~word(input[at + Len(oldName)])
  IN  IF i > Len(input) THEN << >>
      ELSE IF i = 1 /\ here(1)
      THEN newName \o ReplaceFrom(input, oldName, newName, 1 + Len(oldName))
      ELSE IF ~word(input[i]) /\ here(i + 1)
      THEN << input[i] >> \o newName
             \o ReplaceFrom(input, oldName, newName, i + 1 + Len(oldName))
      ELSE << input[i] >> \o ReplaceFrom(input, oldName, newName, i + 1)

\* replaceIdentifiers(input, renameEntries): one entry after the other.
RECURSIVE replaceIdentifiers(_, _)
replaceIdentifiers(input, renameEntries) ==
  IF renameEntries = << >> THEN input
  ELSE replaceIdentifiers(ReplaceFrom(input, renameEntries[1][1], renameEntries[1][2], 1),
                          Tail(renameEntries))

\* visit(node) of renameComponentsInBjlJson
RECURSIVE visit(_, _)
visit(node, renameEntries) ==
  IF Is(node, "str") THEN Str(replaceIdentifiers(node.str, renameEntries))
  ELSE IF Is(node, "arr")
  THEN Arr([i \in 1..Len(node.arr) |-> visit(node.arr[i], renameEntries)])
  ELSE IF Is(node, "obj")
  THEN Obj(FromEntries([i \in 1..Len(node.obj) |->
                          << replaceIdentifiers(node.obj[i][1], renameEntries),
                             visit(node.obj[i][2], renameEntries) >>],
                       << >>))
  ELSE node

\* renameComponentsInBjlJson(jsonObject, renameMap)
Rename ==
  /\ pc = "rename"
  /\ pc' = "renamed"
  /\ \E n \in { normalizeRenameMap(renaming.map) } :
         renaming' = [renaming EXCEPT
                        !.err = n.err,
                        !.out = IF n.err # "" THEN Undefined
                                ELSE visit(renaming.node, n.entries)]
  /\ UNCHANGED << json, toBil, sent, layout, bytes, wire, changedAt, offset, cache, design,
                  consumed, script, mapEnd, read, error, round >>
  /\ UNCHANGED << writer, written, reserved, calls, menu, sheet, otp >>

(***************************************************************************)
(* ContextMenu.  heap holds the node objects made so far, each [nodeId,    *)
(* parentId, children], children being positions in heap; items holds the  *)
(* positions of the nodes of this.items, nodeMap the pairs <<id, position>> *)
(* of this.nodeMap.  last keeps the last call: the method, the id it was   *)
(* given, what removeItem returned, and items, nodeMap and heap as they     *)
(* were before the call.  Ids are strings of code units.                   *)
(***************************************************************************)
\* The nodes under the nodes at the positions refs, these included: what
\* removeChildren visits, and what buildMenu renders.
RECURSIVE Under(_, _)
Under(heap, refs) ==
  IF refs = << >> THEN { }
  ELSE { refs[1] } \cup Under(heap, heap[refs[1]].children) \cup Under(heap, Tail(refs))

\* addItem(parentId, nodeId, iconUrl, label): the ids are trimmed and put in
\* lower case.
MenuAdd ==
  /\ pc = "menu"
  /\ Len(menu.heap) < MaxNodes
  /\ \E rawParent \in { << >>, << 97 >>, << 66 >>, << 122 >> } :
     \E rawNode \in { << >>, << 97 >>, << 65, 32 >>, << 98 >>, << 120 >> } :
       LET trim(t) == IF \A k \in 1..Len(t) : t[k] = 32 THEN << >>
                      ELSE SubSeq(t, CHOOSE a \in 1..Len(t) :
                                       t[a] # 32 /\ \A k \in 1..(a - 1) : t[k] = 32,
                                     CHOOSE b \in 1..Len(t) :
                                       t[b] # 32 /\ \A k \in (b + 1)..Len(t) : t[k] = 32)
           lower(t) == [k \in 1..Len(t) |-> IF t[k] >= 65 /\ t[k] <= 90 THEN t[k] + 32 ELSE t[k]]
           parentId == lower(trim(rawParent))
           nodeId == lower(trim(rawNode))
           has(id) == \E k \in 1..Len(menu.nodeMap) : menu.nodeMap[k][1] = id
           ref == Len(menu.heap) + 1
           parent == (CHOOSE k \in 1..Len(menu.nodeMap) : menu.nodeMap[k][1] = parentId)
           newNode == [nodeId |-> nodeId, parentId |-> parentId, children |-> << >>]
           before == [op |-> "addItem", id |-> rawNode, result |-> FALSE,
                      items |-> menu.items, nodeMap |-> menu.nodeMap, heap |-> menu.heap]
       IN  IF nodeId = << >> \/ has(nodeId) \/ (parentId # << >> /\ ~has(parentId))
           THEN menu' = [menu EXCEPT !.last = before]
           ELSE IF parentId = << >>
           THEN menu' = [heap |-> Append(menu.heap, newNode),
                         items |-> Append(menu.items, ref),
                         nodeMap |-> Append(menu.nodeMap, << nodeId, ref >>),
                         last |-> before]
           ELSE menu' = [heap |-> Append([menu.heap EXCEPT
                                            ![menu.nodeMap[parent][2]].children = Append(@, ref)],
                                         newNode),
                         items |-> menu.items,
                         nodeMap |-> Append(menu.nodeMap, << nodeId, ref >>),
                         last |-> before]
  /\ UNCHANGED << codec, writer, written, reserved, calls, renaming, sheet, otp >>

\* removeItem(nodeId)
MenuRemove ==
  /\ pc = "menu"
  /\ \E nodeId \in { << >>, << 97 >>, << 98 >>, << 120 >>, << 65, 32 >> } :
       LET has(id) == \E k \in 1..Len(menu.nodeMap) : menu.nodeMap[k][1] = id
           get(id) == menu.nodeMap[CHOOSE k \in 1..Len(menu.nodeMap) : menu.nodeMap[k][1] = id][2]
           keep(refs) == SelectSeq(refs, LAMBDA r : menu.heap[r].nodeId # nodeId)
           before(result) == [op |-> "removeItem", id |-> nodeId, result |-> result,
                              items |-> menu.items, nodeMap |-> menu.nodeMap,
                              heap |-> menu.heap]
       IN  IF nodeId = << >> \/ ~has(nodeId)
           THEN menu' = [menu EXCEPT !.last = before(FALSE)]
           ELSE menu' =
                  [heap |-> IF menu.heap[get(nodeId)].parentId # << >>
                               /\ has(menu.heap[get(nodeId)].parentId)
                            THEN [menu.heap EXCEPT
                                    ![get(menu.heap[get(nodeId)].parentId)].children = keep(@)]
                            ELSE menu.heap,
                   items |-> IF menu.heap[get(nodeId)].parentId = << >>
                             THEN keep(menu.items) ELSE menu.items,
                   nodeMap |-> SelectSeq(menu.nodeMap, LAMBDA e :
                                 /\ e[1] # nodeId
                                 /\ \A r \in Under(menu.heap, menu.heap[get(nodeId)].children) :
                                      menu.heap[r].nodeId # e[1]),
                   last |-> before(TRUE)]
  /\ UNCHANGED << codec, writer, written, reserved, calls, renaming, sheet, otp >>

\* clear()
MenuClear ==
  /\ pc = "menu"
  /\ menu' = [menu EXCEPT !.nodeMap = << >>,
                          !.last = [op |-> "clear", id |-> << >>, result |-> FALSE,
                                    items |-> menu.items, nodeMap |-> menu.nodeMap,
                                    heap |-> menu.heap]]
  /\ UNCHANGED << codec, writer, written, reserved, calls, renaming, sheet, otp >>

(***************************************************************************)
(* DaisySheetModal (scripts/daisy-sheet.js).  sheet holds what show, hide   *)
(* and the listeners read and write: modal is whether connectedCallback    *)
(* has cached this._modal and attached the listeners, open the attribute   *)
(* open, transform whether the modal's style.transform has it on screen,   *)
(* clickable the backdrop's pointerEvents, showBackdrop and backdropDismiss *)
(* the attributes, timers the callbacks hide() has given to setTimeout that *)
(* have not run yet.  asked keeps the last request: "show" after show(),    *)
(* "hide" after hide(), an Escape press that hid or a backdrop click that   *)
(* dismissed.  The timers of one sheet have the same delay and so run in    *)
(* the order they were set; their number is all that matters.  The height   *)
(* and the breakpoint of the sheet are left out.                            *)
(***************************************************************************)
\* _applyDynamicStyles(), which ends with _toggleBackdrop()
applyDynamicStyles(s) ==
  IF ~s.modal THEN s
  ELSE [s EXCEPT !.transform = IF s.open THEN "in" ELSE "out",
                 !.clickable = s.open /\ s.showBackdrop]

\* hide(): with a modal the attribute is removed by a timer
hide(s) ==
  IF s.modal
  THEN [s EXCEPT !.transform = "out", !.timers = @ + 1]
  ELSE applyDynamicStyles([s EXCEPT !.open = FALSE])

\* show(breakpoint)
SheetShow ==
  /\ pc = "sheet"
  /\ sheet' = applyDynamicStyles([sheet EXCEPT !.open = TRUE, !.asked = "show"])
  /\ UNCHANGED << codec, writer, written, reserved, calls, renaming, menu, otp >>

\* hide(), called by the page
SheetHide ==
  /\ pc = "sheet"
  /\ sheet.timers < MaxTimers
  /\ sheet' = [hide(sheet) EXCEPT !.asked = "hide"]
  /\ UNCHANGED << codec, writer, written, reserved, calls, renaming, menu, otp >>

\* this._escListener, on a keydown of the document
SheetEscape ==
  /\ pc = "sheet"
  /\ sheet.modal
  /\ sheet.timers < MaxTimers
  /\ \E key \in { "Escape", "Enter" } :
       IF key = "Escape" /\ sheet.open
       THEN sheet' = [hide(sheet) EXCEPT !.asked = "hide"]
       ELSE UNCHANGED sheet
  /\ UNCHANGED << codec, writer, written, reserved, calls, renaming, menu, otp >>

\* backdrop.onclick: the backdrop takes clicks while its pointerEvents is auto
SheetBackdropClick ==
  /\ pc = "sheet"
  /\ sheet.modal
  /\ sheet.clickable
  /\ sheet.timers < MaxTimers
  /\ IF sheet.backdropDismiss
     THEN sheet' = [hide(sheet) EXCEPT !.asked = "hide"]
     ELSE UNCHANGED sheet
  /\ UNCHANGED << codec, writer, written, reserved, calls, renaming, menu, otp >>

\* The callback hide() gave to setTimeout runs.
SheetTimer ==
  /\ pc = "sheet"
  /\ sheet.timers > 0
  /\ sheet' = applyDynamicStyles([sheet EXCEPT !.open = FALSE, !.timers = @ - 1])
  /\ UNCHANGED << codec, writer, written, reserved, calls, renaming, menu, otp >>

(***************************************************************************)
(* OtpInput (scripts/daisy-sheet.js).  otp holds length (this._length),    *)
(* type (this._type), inputs (the value of each box of this._inputs, a      *)
(* string of code units), value (this._value, an array whose slots are      *)
(* strings or are empty), and last: the last operation and the event it     *)
(* dispatched, if any, with its detail.  No handler changes a box after it  *)
(* has dispatched, so the boxes at the moment of an event are the boxes     *)
(* after the operation.  The events of a box come from any box: the focus   *)
(* is not kept.                                                             *)
(***************************************************************************)
\* An empty slot of an array
EmptySlot == [hole |-> 0]

\* The code units the boxes are given: the digit 1 and the letter a
OtpUnits == { 49, 97 }

\* The strings of at most n code units
OtpTexts(n) == UNION { [1..k -> OtpUnits] : k \in 0..n }

\* /^[0-9]$/.test(val)
IsDigit(val) == Len(val) = 1 /\ val[1] >= 48 /\ val[1] <= 57

\* array[idx] = v, idx counted from 1: the slots between the end of the
\* array and idx are left empty
SetSlot(array, idx, v) ==
  IF idx <= Len(array) THEN [array EXCEPT ![idx] = v]
  ELSE array \o [k \in 1..(idx - Len(array) - 1) |-> EmptySlot] \o << v >>

\* this._value.every(v => v.length === 1): every skips the empty slots
EveryFilled(array) ==
  \A k \in 1..Len(array) : array[k] = EmptySlot \/ Len(array[k].str) = 1

\* this._value.join(''): an empty slot gives the empty string
RECURSIVE JoinValue(_)
JoinValue(array) ==
  IF array = << >> THEN << >>
  ELSE (IF array[1] = EmptySlot THEN << >> ELSE array[1].str) \o JoinValue(Tail(array))

\* What _render leaves: length boxes, all empty
Rendered(length, type) ==
  [length |-> length, type |-> type,
   inputs |-> [k \in 1..length |-> << >>],
   value |-> [k \in 1..length |-> Str(<< >>)],
   last |-> [op |-> "", event |-> "", detail |-> << >>]]

\* The operation op left the boxes and the value so, and dispatched the
\* completion event named event if every slot of the value is filled.
Completing(o, op, event) ==
  [o EXCEPT !.last = IF EveryFilled(o.value)
                     THEN [op |-> op, event |-> event, detail |-> JoinValue(o.value)]
                     ELSE [op |-> op, event |-> "", detail |-> << >>]]

\* _onInput(e, idx), after the browser has left content in the box
OtpOnInput ==
  /\ pc = "otp"
  /\ \E idx \in 1..otp.length :
     \E content \in OtpTexts(2) :
       LET isValid == ~(otp.type = "tel" /\ ~IsDigit(content))
           val == IF Len(content) > 1 THEN << content[1] >> ELSE content
       IN  IF ~isValid /\ val # << >>
           THEN otp' = [otp EXCEPT !.inputs[idx] = << >>,
                                   !.last = [op |-> "input", event |-> "otp-error",
                                             detail |-> val]]
           ELSE otp' = Completing([otp EXCEPT !.inputs[idx] = val,
                                              !.value = SetSlot(@, idx, Str(val))],
                                  "input", "complete")
  /\ UNCHANGED << codec, writer, written, reserved, calls, renaming, menu, sheet >>

\* _onKeyDown(e, idx)
OtpOnKeyDown ==
  /\ pc = "otp"
  /\ \E idx \in 1..otp.length :
     \E key \in { "Backspace", "ArrowLeft", "ArrowRight", "a", "Enter" } :
     \E ctrlKey \in BOOLEAN :
       LET done == [op |-> "keydown", event |-> "", detail |-> << >>]
       IN  IF key = "Backspace"
           THEN IF otp.inputs[idx] = << >>
                THEN IF idx > 1
                     THEN otp' = [otp EXCEPT !.inputs[idx - 1] = << >>,
                                             !.value = SetSlot(@, idx - 1, Str(<< >>)),
                                             !.last = done]
                     ELSE otp' = [otp EXCEPT !.last = done]
                ELSE otp' = [otp EXCEPT !.inputs[idx] = << >>,
                                        !.value = SetSlot(@, idx, Str(<< >>)),
                                        !.last = done]
           ELSE IF key \in { "ArrowLeft", "ArrowRight" }
           THEN otp' = [otp EXCEPT !.last = done]
           ELSE IF key = "a" /\ ~ctrlKey
           THEN otp' = [otp EXCEPT !.inputs[idx] = << >>,
                                   !.value = SetSlot(@, idx, Str(<< >>)),
                                   !.last = done]
           ELSE otp' = [otp EXCEPT !.last = done]
  /\ UNCHANGED << codec, writer, written, reserved, calls, renaming, menu, sheet >>

\* The first loop of _onPaste: chars[i] goes to the box idx + i
RECURSIVE PasteInto(_, _, _)
PasteInto(o, at, chars) ==
  IF chars = << >> \/ at > Len(o.inputs) THEN o
  ELSE IF o.type = "tel" /\ ~IsDigit(<< chars[1] >>)
  THEN PasteInto(o, at + 1, Tail(chars))
  ELSE PasteInto([o EXCEPT !.inputs[at] = << chars[1] >>,
                           !.value = SetSlot(@, at, Str(<< chars[1] >>))],
                 at + 1, Tail(chars))

\* _onPaste(e, idx)
OtpOnPaste ==
  /\ pc = "otp"
  /\ \E idx \in 1..otp.length :
     \E paste \in OtpTexts(otp.length) :
       otp' = Completing(PasteInto(otp, idx, paste), "paste", "otp-complete")
  /\ UNCHANGED << codec, writer, written, reserved, calls, renaming, menu, sheet >>

\* set value(val), val a string
OtpSetValue ==
  /\ pc = "otp"
  /\ \E val \in OtpTexts(otp.length + 1) :
       LET kept == SubSeq(val, 1, IF Len(val) < otp.length THEN Len(val) ELSE otp.length)
       IN  otp' = [otp EXCEPT !.value = [k \in 1..Len(kept) |-> Str(<< kept[k] >>)],
                              !.inputs = [k \in 1..otp.length |->
                                            IF k <= Len(kept) THEN << kept[k] >> ELSE << >>],
                              !.last = [op |-> "value", event |-> "", detail |-> << >>]]
  /\ UNCHANGED << codec, writer, written, reserved, calls, renaming, menu, sheet >>

\* clear()
OtpClear ==
  /\ pc = "otp"
  /\ otp' = [otp EXCEPT !.value = [k \in 1..otp.length |-> Str(<< >>)],
                        !.inputs = [k \in 1..otp.length |-> << >>],
                        !.last = [op |-> "clear", event |-> "", detail |-> << >>]]
  /\ UNCHANGED << codec, writer, written, reserved, calls, renaming, menu, sheet >>

\* The classes used on their own, but for the ones named in used, were not
\* constructed.
AtRest(used) ==
  /\ "writer" \in used
       \/ /\ writer = [mem |-> << >>, buffer |-> 0, view |-> 0, offset |-> 0, err |-> ""]
          /\ written = << >>
          /\ reserved = [at |-> -1, in |-> 0, end |-> -1]
  /\ "calls" \in used \/ calls = << >>
  /\ "renaming" \in used
       \/ renaming = [node |-> Undefined, map |-> Undefined, out |-> Undefined, err |-> ""]
  /\ "menu" \in used
       \/ menu = [heap |-> << >>, items |-> << >>, nodeMap |-> << >>,
                  last |-> [op |-> "", id |-> << >>, result |-> FALSE, items |-> << >>,
                            nodeMap |-> << >>, heap |-> << >>]]
  /\ "sheet" \in used
       \/ sheet = [modal |-> FALSE, open |-> FALSE, transform |-> "out",
                   clickable |-> FALSE, showBackdrop |-> FALSE,
                   backdropDismiss |-> FALSE, timers |-> 0, asked |-> ""]
  /\ "otp" \in used \/ otp = Rendered(0, "text")

\* The page converts a document with a converter, or uses one of the other
\* classes on its own: a BinaryWriter of a capacity of its choice; or it has
\* two calls in progress, the first on converter 1, the second on converter
\* 1 or 2, each an encode of a document or a decode of the bytes of one; or
\* it renames the components of a parsed document; or it has a ContextMenu,
\* which is made without items; or a daisy-sheet, closed, in the document
\* or not yet; or an otp-input in the document, its boxes empty.
Init ==
  /\ bytes = << >>
  /\ Idle
  /\ \/ /\ pc = "encode"
        /\ json \in Documents
        /\ toBil \in BOOLEAN
        /\ AtRest({ })
     \/ /\ pc = "writer"
        /\ json = BaseDocument
        /\ toBil = FALSE
        /\ \E size \in { 0, 1, 6 } :
             writer = [mem |-> << [i \in 1..size |-> 0] >>, buffer |-> 1, view |-> 1,
                       offset |-> 0, err |-> ""]
        /\ written = << >>
        /\ reserved = [at |-> -1, in |-> 0, end |-> -1]
        /\ AtRest({ "writer" })
     \/ /\ pc = "calls"
        /\ json = BaseDocument
        /\ toBil = FALSE
        /\ \E k1, k2 \in { "encode", "bytes", "file" } :
           \E d1, d2 \in { BaseDocument, [BaseDocument EXCEPT !.Data = Obj(<< >>)] } :
           \E conv \in { 1, 2 } :
             calls = << Frame(k1, 1, d1), Frame(k2, conv, d2) >>
        /\ AtRest({ "calls" })
     \/ /\ pc = "rename"
        /\ json = BaseDocument
        /\ toBil = FALSE
        /\ renaming \in RenameCalls
        /\ AtRest({ "renaming" })
     \/ /\ pc = "menu"
        /\ json = BaseDocument
        /\ toBil = FALSE
        /\ AtRest({ })
     \/ /\ pc = "sheet"
        /\ json = BaseDocument
        /\ toBil = FALSE
        /\ \E modal, showBackdrop, backdropDismiss \in BOOLEAN :
             sheet = [modal |-> modal, open |-> FALSE, transform |-> "out",
                      clickable |-> FALSE, showBackdrop |-> showBackdrop,
                      backdropDismiss |-> backdropDismiss, timers |-> 0, asked |-> ""]
        /\ AtRest({ "sheet" })
     \/ /\ pc = "otp"
        /\ json = BaseDocument
        /\ toBil = FALSE
        /\ \E length \in { 2, MaxBoxes } :
           \E type \in { "text", "tel", "password" } :
             otp = Rendered(length, type)
        /\ AtRest({ "otp" })

\* One section read by decode
Section(name, from, to) == [name |-> name, from |-> from, to |-> to]

\* convertJsonToBjlToBytes(json).  The bytes of the first encode are handed
\* over by one of the actions below; those of a later one go to decode as
\* they are.
ConvertJsonToBjlToBytes ==
  /\ pc = "encode"
  /\ \E e \in { EncodeSections(json, toBil) } :
         IF e.err # ""
         THEN /\ pc' = "failed"
              /\ error' = e.err
              /\ UNCHANGED << sent, layout, bytes, wire >>
         ELSE /\ sent' = Flatten(e.sections)
              /\ layout' = Ranges(e.sections, 0)
              /\ error' = ""
              /\ IF round = 0
                 THEN pc' = "handover" /\ UNCHANGED << bytes, wire >>
                 ELSE pc' = "header" /\ bytes' = Flatten(e.sections) /\ wire' = "intact"
  /\ UNCHANGED << json, toBil, changedAt, read, round, offset, cache, design,
                  consumed, script, mapEnd >>
  /\ UNCHANGED parts

\* The bytes reach decode as encode wrote them.
HandOver ==
  /\ pc = "handover"
  /\ bytes' = sent
  /\ wire' = "intact"
  /\ pc' = "header"
  /\ UNCHANGED << json, toBil, sent, layout, changedAt, read, error, round, offset,
                  cache, design, consumed, script, mapEnd >>
  /\ UNCHANGED parts

\* One byte of the buffer differs from what encode wrote.
ChangeByte ==
  /\ pc = "handover"
  /\ json \in TamperDocuments
  /\ ~toBil
  /\ \E i \in 1..Len(sent) : \E b \in TamperBytes \ { sent[i] } :
       /\ bytes' = [sent EXCEPT ![i] = b]
       /\ changedAt' = i - 1
  /\ wire' = "changed"
  /\ pc' = "header"
  /\ UNCHANGED << json, toBil, sent, layout, read, error, round, offset, cache,
                  design, consumed, script, mapEnd >>
  /\ UNCHANGED parts

\* The buffer ends before the bytes encode wrote do.
CutShort ==
  /\ pc = "handover"
  /\ json \in TamperDocuments
  /\ ~toBil
  /\ \E n \in 0..(Len(sent) - 1) :
       /\ bytes' = SubSeq(sent, 1, n)
       /\ changedAt' = n
  /\ wire' = "cut"
  /\ pc' = "header"
  /\ UNCHANGED << json, toBil, sent, layout, read, error, round, offset, cache,
                  design, consumed, script, mapEnd >>
  /\ UNCHANGED parts

\* The buffer ends before the bytes encode wrote do, and its last byte
\* differs from what encode wrote.
CutAndChange ==
  /\ pc = "handover"
  /\ json \in TamperDocuments
  /\ ~toBil
  /\ \E n \in 1..(Len(sent) - 1) : \E b \in TamperBytes \ { sent[n] } :
       /\ bytes' = Append(SubSeq(sent, 1, n - 1), b)
       /\ changedAt' = n - 1
  /\ wire' = "cut and changed"
  /\ pc' = "header"
  /\ UNCHANGED << json, toBil, sent, layout, read, error, round, offset, cache,
                  design, consumed, script, mapEnd >>
  /\ UNCHANGED parts

\* The buffer is the file of another tool: its script block lists other
\* variants than its body does, or its body has a nested map with the key
\* "ValueType".
ForeignFile ==
  /\ pc = "handover"
  /\ ~toBil
  /\ \/ \E v \in VariantLists \ { json.Variants } :
          bytes' = ForeignBuffer(json, v)
     \/ json = BaseDocument /\ bytes' = ForeignNestedBuffer
  /\ wire' = "foreign"
  /\ pc' = "header"
  /\ UNCHANGED << json, toBil, sent, layout, changedAt, read, error, round, offset,
                  cache, design, consumed, script, mapEnd >>
  /\ UNCHANGED parts

\* const header = this._readLayoutHeader(reader), and the version check
\* after it.
ReadHeaderStep ==
  /\ pc = "header"
  /\ \E h \in { ReadLayoutHeader(bytes) } :
         /\ offset' = h.off
         /\ IF h.err # ""
            THEN /\ pc' = "failed"
                 /\ error' = h.err
                 /\ script' = [at |-> -1, len |-> 0, failed |-> FALSE]
                 /\ UNCHANGED design
                 /\ consumed' = << >>
            ELSE /\ script' = [at |-> h.v.scriptAt, len |-> h.v.scriptLen,
                               failed |-> h.v.scriptFailed]
                 /\ design' = EmptyDesign(h.v.h)
                 /\ IF h.v.h.Version.num < 3
                    THEN /\ pc' = "failed"
                         /\ error' = "UnsupportedVersion"
                         /\ consumed' = << >>
                    ELSE /\ pc' = "strings"
                         /\ error' = ""
                         /\ consumed' = << Section("Header", 0, h.off) >>
  /\ cache' = << >>
  /\ mapEnd' = [stop |-> "", n |-> 0, keyAt |-> -1, unknown |-> -1, after |-> 0]
  /\ UNCHANGED << json, toBil, sent, layout, bytes, wire, changedAt, read, round >>
  /\ UNCHANGED parts

\* const cache = this._loadStringsCache(reader)
LoadStringsStep ==
  /\ pc = "strings"
  /\ \E c \in { LoadStringsCache(bytes, offset) } :
         /\ offset' = c.off
         /\ IF c.err # ""
            THEN pc' = "failed" /\ error' = c.err /\ UNCHANGED << cache, consumed >>
            ELSE /\ cache' = c.v
                 /\ pc' = "variants"
                 /\ error' = ""
                 /\ consumed' = Append(consumed, Section("BodyStringTable", offset, c.off))
  /\ UNCHANGED << json, toBil, sent, layout, bytes, wire, changedAt, read, round,
                  design, script, mapEnd >>
  /\ UNCHANGED parts

\* const variantCount = reader.readInt(), and the loop that reads the
\* variants
ReadVariantsStep ==
  /\ pc = "variants"
  /\ \E v \in { ReadVariants(bytes, offset) } :
         /\ offset' = v.off
         /\ IF v.err # ""
            THEN pc' = "failed" /\ error' = v.err /\ UNCHANGED << design, consumed >>
            ELSE /\ design' = [design EXCEPT !.Variants = v.v]
                 /\ pc' = "map"
                 /\ error' = ""
                 /\ consumed' = consumed \o
                      << Section("VariantCount", offset, offset + 4),
                         Section("Variants", offset + 4, v.off) >>
  /\ UNCHANGED << json, toBil, sent, layout, bytes, wire, changedAt, read, round,
                  cache, script, mapEnd >>
  /\ UNCHANGED parts

\* design.Data = this._readMap(reader, cache).  A loop that is never left
\* keeps the call where it is.
ReadMapStep ==
  /\ pc = "map"
  /\ \E m \in { ReadMap(bytes, offset, cache) } :
         /\ offset' = m.off
         /\ IF m.err = "Forever"
            THEN UNCHANGED << pc, error, mapEnd, design, consumed >>
            ELSE IF m.err # ""
            THEN /\ pc' = "failed"
                 /\ error' = m.err
                 /\ mapEnd' = [stop |-> "throw", n |-> 0, keyAt |-> -1, unknown |-> -1, after |-> 0]
                 /\ UNCHANGED << design, consumed >>
            ELSE /\ mapEnd' = [stop |-> m.v.stop, n |-> m.v.n, keyAt |-> m.v.keyAt,
                                unknown |-> m.v.unknown, after |-> m.v.after]
                 /\ design' = [design EXCEPT !.Data = Obj(m.v.map)]
                 /\ pc' = "footer"
                 /\ error' = ""
                 /\ consumed' = consumed \o
                      << Section("BodyMap", offset, m.v.keyAt),
                         Section("Sentinel", m.v.keyAt, m.off) >>
  /\ UNCHANGED << json, toBil, sent, layout, bytes, wire, changedAt, read, round,
                  cache, script >>
  /\ UNCHANGED parts

\* The footer padding and the two flags; the document is returned.
ReadFooterStep ==
  /\ pc = "footer"
  /\ \E f \in { ReadFooter(bytes, offset) } :
         /\ offset' = f.off
         /\ IF f.err # ""
            THEN pc' = "failed" /\ error' = f.err /\ UNCHANGED << design, consumed, round >>
            ELSE /\ design' = [design EXCEPT !.FontAwesome = f.v.FontAwesome,
                                              !.MaterialIcons = f.v.MaterialIcons]
                 /\ pc' = "done"
                 /\ error' = ""
                 /\ round' = round + 1
                 /\ consumed' = consumed \o
                      << Section("Padding", offset, offset + 4),
                         Section("FlagA", offset + 4, offset + 5),
                         Section("FlagB", offset + 5, f.off) >>
  /\ UNCHANGED << json, toBil, sent, layout, bytes, wire, changedAt, read, cache,
                  script, mapEnd >>
  /\ UNCHANGED parts

\* The caller gives the document decode returned to encode.
EncodeAgain ==
  /\ pc = "done"
  /\ round = 1
  /\ json' = design
  /\ pc' = "encode"
  /\ UNCHANGED << toBil, sent, layout, bytes, wire, changedAt, read, error, round,
                  offset, cache, design, consumed, script, mapEnd >>
  /\ UNCHANGED parts

(***************************************************************************)
(* A BinaryWriter on its own.  mem holds the arrays the writer has made,   *)
(* buffer and view the positions in mem of the array this.buffer is and of *)
(* the array this.view looks at.  written keeps the bytes the write calls  *)
(* were given; reserved keeps the offset of a length field written as 0,   *)
(* the array the writer had then, and the number of bytes given when the   *)
(* field was set (-1 before).                                              *)
(***************************************************************************)
\* ensure(len) making the new array twice as long as the old one.
ensureDoubling(w, len) ==
  IF w.offset + len <= Len(w.mem[w.buffer]) THEN w
  ELSE [w EXCEPT !.mem = Append(@, [i \in 1..(Len(w.mem[w.buffer]) * 2) |->
                                      IF i <= Len(w.mem[w.buffer]) THEN w.mem[w.buffer][i]
                                      ELSE 0]),
                 !.buffer = Len(w.mem) + 1,
                 !.view = Len(w.mem) + 1]

\* ensure(len) leaving this.view on the old array.
ensureStaleView(w, len) ==
  IF w.offset + len <= Len(w.mem[w.buffer]) THEN w
  ELSE [w EXCEPT !.mem = Append(@, [i \in 1..((Len(w.mem[w.buffer]) + len) * 2) |->
                                      IF i <= Len(w.mem[w.buffer]) THEN w.mem[w.buffer][i]
                                      ELSE 0]),
                 !.buffer = Len(w.mem) + 1]

\* ensure(len)
ensure(w, len) ==
  IF w.offset + len <= Len(w.mem[w.buffer]) THEN w
  ELSE [w EXCEPT !.mem = Append(@, [i \in 1..((Len(w.mem[w.buffer]) + len) * 2) |->
                                      IF i <= Len(w.mem[w.buffer]) THEN w.mem[w.buffer][i]
                                      ELSE 0]),
                 !.buffer = Len(w.mem) + 1,
                 !.view = Len(w.mem) + 1]

\* writeByte(arg), writeInt(arg), writeFloat(arg) and writeBytes(arg): ensure,
\* then the bytes are set through the view, or through the buffer by
\* writeBytes, and the offset moves on.  A set outside the array throws, for
\* writeByte after offset++.
Write(w, op, arg) ==
  LET bs == IF op = "writeByte" THEN << arg % 256 >>
            ELSE IF op = "writeInt" THEN IntToBytes(arg)
            ELSE IF op = "writeFloat" THEN NumToF32(arg)
            ELSE arg
      e == ensure(w, IF op = "writeByte" THEN 1 ELSE IF op = "writeBytes" THEN Len(arg) ELSE 4)
      via == IF op = "writeBytes" THEN e.buffer ELSE e.view
  IN  IF e.offset + Len(bs) > Len(e.mem[via])
      THEN [e EXCEPT !.err = "RangeError",
                     !.offset = IF op = "writeByte" THEN @ + 1 ELSE @]
      ELSE [e EXCEPT !.err = "",
                     !.offset = @ + Len(bs),
                     !.mem[via] = [i \in 1..Len(@) |->
                                     IF i > e.offset /\ i <= e.offset + Len(bs)
                                     THEN bs[i - e.offset] ELSE @[i]]]

\* updateInt(offset, v)
updateInt(w, at, v) ==
  IF at < 0 \/ at + 4 > Len(w.mem[w.view]) THEN [w EXCEPT !.err = "RangeError"]
  ELSE [w EXCEPT !.err = "",
                 !.mem[w.view] = [i \in 1..Len(@) |->
                                    IF i > at /\ i <= at + 4 THEN IntToBytes(v)[i - at]
                                    ELSE @[i]]]

\* getBuffer()
getBuffer(w) == SubSeq(w.mem[w.buffer], 1, w.offset)

\* A write call: the method, its argument, and the bytes the call is to
\* write.
WriterWrite ==
  /\ pc = "writer"
  /\ Len(written) < MaxWritten
  /\ \E c \in { << "writeByte", 263, << 7 >> >>,
                 << "writeInt", 258, << 2, 1, 0, 0 >> >>,
                 << "writeInt", -2, << 254, 255, 255, 255 >> >>,
                 << "writeFloat", Num(1), << 0, 0, 128, 63 >> >>,
                 << "writeBytes", << >>, << >> >>,
                 << "writeBytes", << 1, 2, 3, 4, 5 >>, << 1, 2, 3, 4, 5 >> >> } :
       /\ writer' = Write(writer, c[1], c[2])
       /\ written' = written \o c[3]
  /\ UNCHANGED << codec, reserved, calls, renaming, menu, sheet, otp >>

\* const headerSizePosition = writer.offset; writer.writeInt(0)
WriterReserve ==
  /\ pc = "writer"
  /\ Len(written) < MaxWritten
  /\ reserved.at = -1
  /\ writer' = Write(writer, "writeInt", 0)
  /\ written' = written \o << 0, 0, 0, 0 >>
  /\ reserved' = [at |-> writer.offset, in |-> writer'.buffer, end |-> -1]
  /\ UNCHANGED << codec, calls, renaming, menu, sheet, otp >>

\* writer.updateInt(headerSizePosition, writer.offset - headerSizePosition - 4)
WriterPatch ==
  /\ pc = "writer"
  /\ reserved.at >= 0
  /\ reserved.end = -1
  /\ writer' = updateInt(writer, reserved.at, writer.offset - reserved.at - 4)
  /\ reserved' = [reserved EXCEPT !.end = Len(written)]
  /\ UNCHANGED << codec, written, calls, renaming, menu, sheet, otp >>

Next ==
  \/ ConvertJsonToBjlToBytes
  \/ HandOver
  \/ ChangeByte
  \/ CutShort
  \/ CutAndChange
  \/ ForeignFile
  \/ ReadHeaderStep
  \/ LoadStringsStep
  \/ ReadVariantsStep
  \/ ReadMapStep
  \/ ReadFooterStep
  \/ EncodeAgain
  \/ WriterWrite
  \/ WriterReserve
  \/ WriterPatch
  \/ \E c \in { 1, 2 } : CallStep(c)
  \/ Rename
  \/ MenuAdd
  \/ MenuRemove
  \/ MenuClear
  \/ SheetShow
  \/ SheetHide
  \/ SheetEscape
  \/ SheetBackdropClick
  \/ SheetTimer
  \/ OtpOnInput
  \/ OtpOnKeyDown
  \/ OtpOnPaste
  \/ OtpSetValue
  \/ OtpClear

Spec == Init /\ [][Next]_vars

(***************************************************************************)
(* A BinaryReader on its own: a caller that makes reads of its choice on a *)
(* buffer.  read keeps the last read: the method, the number of bytes it   *)
(* asked for, the offset before it, whether it returned and the number of  *)
(* bytes it returned.                                                      *)
(***************************************************************************)
InitReader ==
  /\ json = BaseDocument
  /\ toBil = FALSE
  /\ bytes \in ReaderBuffers
  /\ pc = "reader"
  /\ Idle
  /\ AtRest({ })

\* The method op, asked for len bytes, gave r.
ReaderRead(op, len, r) ==
  /\ pc = "reader"
  /\ offset >= -MaxOffset
  /\ offset <= MaxOffset
  /\ read' = [op |-> op, len |-> len, before |-> offset, ok |-> r.err = "",
              got |-> IF r.err # "" THEN 0
                      ELSE IF op = "readBytes" THEN Len(r.v) ELSE len]
  /\ offset' = r.off
  /\ error' = r.err
  /\ UNCHANGED << json, toBil, sent, layout, bytes, wire, changedAt, cache, design,
                  consumed, script, mapEnd, pc, round >>
  /\ UNCHANGED parts

ReaderReadByte == ReaderRead("readByte", 1, readByte(bytes, offset))

ReaderReadSignedByte == ReaderRead("readSignedByte", 1, readSignedByte(bytes, offset))

ReaderReadInt == ReaderRead("readInt", 4, readInt(bytes, offset))

ReaderReadFloat == ReaderRead("readFloat", 4, readFloat(bytes, offset))

ReaderReadBytes ==
  \E len \in ReadLengths : ReaderRead("readBytes", len, readBytes(bytes, offset, len))

NextReader ==
  \/ ReaderReadByte
  \/ ReaderReadSignedByte
  \/ ReaderReadInt
  \/ ReaderReadFloat
  \/ ReaderReadBytes

SpecReader == InitReader /\ [][NextReader]_vars

(***************************************************************************)
(* What the properties below speak of.                                     *)
(***************************************************************************)
\* decode has returned a document
Returns == pc = "done"

\* The names of a list of sections, in order
Names(sections) == [i \in 1..Len(sections) |-> sections[i].name]

\* The bytes of the named section of the buffer encode returned
SectionBytes(name) ==
  LET i == CHOOSE k \in 1..Len(layout) : layout[k].name = name
  IN  SubSeq(sent, layout[i].from + 1, layout[i].to)

\* A value tagged Null or Rect
IsNullOrRect(val) == IsObject(val) /\ Field(val, Text.ValueType) \in { Num(TYPE_CODES.CNULL), Num(TYPE_CODES.RECT32) }

\* An untagged object: a nested map
IsNested(val) == Is(val, "obj") /\ Is(Field(val, Text.ValueType), "undef")

\* No value of the map, at any depth, is tagged Null or Rect
RECURSIVE NoNullOrRect(_)
NoNullOrRect(pairs) ==
  \A i \in 1..Len(pairs) :
    /\ ~IsNullOrRect(pairs[i][2])
    /\ IsNested(pairs[i][2]) => NoNullOrRect(pairs[i][2].obj)

\* The map without its entries tagged Null or Rect, at every depth
RECURSIVE Reduced(_)
Reduced(pairs) ==
  IF pairs = << >> THEN << >>
  ELSE IF IsNullOrRect(pairs[1][2]) THEN Reduced(Tail(pairs))
  ELSE IF IsNested(pairs[1][2])
  THEN << << pairs[1][1], Obj(Reduced(pairs[1][2].obj)) >> >> \o Reduced(Tail(pairs))
  ELSE << pairs[1] >> \o Reduced(Tail(pairs))

\* The strings _writeMap writes by reference for a map: its keys and its
\* plain string values, at every depth
RECURSIVE Referenced(_)
Referenced(pairs) ==
  UNION { { Str(pairs[i][1]) }
            \cup (IF Is(pairs[i][2], "str") THEN { pairs[i][2] } ELSE { })
            \cup (IF IsNested(pairs[i][2]) THEN Referenced(pairs[i][2].obj) ELSE { })
          : i \in 1..Len(pairs) }

\* The cache encode collects for the body of json
BodyCache == CollectStrings(DataOf(json.Data), [cache |-> << >>, order |-> << >>], 1).cache

\* The header fields encode writes for json, as decode gives them back
WrittenVersion == Num(OrNum(json.LayoutHeader.Version, 4).num)
WrittenGridSize ==
  IF WrittenVersion.num >= 4 THEN Num(OrNum(json.LayoutHeader.GridSize, 10).num)
  ELSE Num(10)

\* The buffer holds the bytes encode wrote up to and including the length
\* field of the script block
HeaderIntact ==
  \/ wire = "intact"
  \/ wire \in { "changed", "cut", "cut and changed" } /\ changedAt >= script.at + 4

\* The order of the sections in the code, and in the specification
CodeOrder ==
  << "Header", "BodyStringTable", "VariantCount", "Variants", "BodyMap", "Sentinel",
     "Padding", "FlagA", "FlagB" >>
SpecOrder ==
  << "Header", "VariantCount", "Variants", "BodyStringTable", "BodyMap", "Sentinel",
     "Padding", "FlagA", "FlagB" >>

(***************************************************************************)
(* Properties.                                                             *)
(***************************************************************************)
\* C1 - Round-trip identity: a document d that decode returned and that
\* holds no Null or Rect value at any depth of its body is given to encode
\* (json is d from then on), and the decode of the bytes returns a document
\* equal to d in all parts: header, variants, body and both flags.
C1_RoundTripIdentity ==
  (/\ (round = 1 /\ pc = "failed") \/ (round = 2 /\ pc = "done")
   /\ NoNullOrRect(json.Data.obj))
    => (pc = "done" /\ design = json)

\* C2 - Reduced-mode lossy law: with toBil set, the decode of the bytes
\* encode wrote for a document gives the body of the document without its
\* entries tagged Null or Rect, at every depth, every other entry being
\* there with its value.
C2_ReducedModeLossyLaw ==
  (toBil /\ round = 1 /\ pc = "done" /\ wire = "intact")
    => design.Data = Obj(Reduced(DataOf(json.Data).obj))

\* C3 - Version gate: the decode of a buffer whose first int32 is below 3
\* fails with the unsupported-version error with the reader at offset 4,
\* nothing after the version having been read.
C3_VersionGate ==
  (/\ pc \notin { "encode", "handover", "header", "reader" }
   /\ Len(bytes) >= 4
   /\ BytesToInt(SubSeq(bytes, 1, 4)) < 3)
    => (pc = "failed" /\ error = "UnsupportedVersion" /\ offset = 4
        /\ consumed = << >> /\ script.at = -1)

\* A buffer of more than four bytes with a version below 3 was refused.
C3_Witness ==
  /\ pc = "failed"
  /\ error = "UnsupportedVersion"
  /\ Len(bytes) > 4
  /\ BytesToInt(SubSeq(bytes, 1, 4)) < 3
  /\ offset = 4

\* C4 - Cache closure: when encode returns bytes, every string the body was
\* to reference (a key or a plain string value, at every depth) is in the
\* cache collected for the body, whatever the size of that cache: a string
\* that is not makes encode fail with CacheMiss.
C4_CacheClosure ==
  (round = 0 /\ pc = "handover" /\ ~toBil)
    => \A s \in Referenced(DataOf(json.Data).obj) : HasOwn(BodyCache, JsString(s))

\* C5 - Unknown tag tolerance: when the body map of the buffer holds n
\* entries, then a key and a tag outside TYPE_CODES, decode returns a
\* document (no error is raised) whose body holds those n entries.
C5_UnknownTagTolerance ==
  (mapEnd.stop = "unknown" /\ pc \in { "done", "failed" } /\ round <= 1)
    => (pc = "done" /\ Len(design.Data.obj) = mapEnd.n)

\* C6 - Byte layout order: the sections of every buffer encode
\* returns are, in order, Header, VariantCount, Variants, BodyStringTable,
\* BodyMap, Sentinel, Padding, FlagA, FlagB, and decode reads them in that
\* order.
C6_SpecLayoutOrder ==
  /\ layout # << >> => Names(layout) = SpecOrder
  /\ (Returns /\ wire = "intact") => Names(consumed) = SpecOrder

\* C6 (in the order the code has) - the sections of every buffer encode
\* returns are, in order, Header, BodyStringTable, VariantCount, Variants,
\* BodyMap, Sentinel, Padding, FlagA, FlagB, and decode reads the sections
\* in that same order: what it has read so far is always the beginning of
\* that list, and all of it once a document is returned.
C6_CodeLayoutOrder ==
  /\ layout # << >> => Names(layout) = CodeOrder
  /\ Names(consumed) = SubSeq(CodeOrder, 1, Len(consumed))
  /\ Returns => Names(consumed) = CodeOrder

\* decode has returned a document from a buffer that encode wrote, having
\* read the nine sections where encode wrote them.
C6_Witness ==
  /\ Returns
  /\ wire = "intact"
  /\ Names(layout) = CodeOrder
  /\ consumed = layout

\* C7 - Duplicate keys and order are preserved: the map decode returns
\* keeps every entry of the byte stream, entries with the same key too,
\* and encode writes the entries of a map in the order they were inserted,
\* keys that look like integers included.
C7_DuplicatesAndOrderPreserved ==
  /\ (Returns /\ round = 1 /\ mapEnd.stop = "end")
       => Len(design.Data.obj) = mapEnd.n
  /\ (round = 0 /\ pc = "handover" /\ json.Data = Obj(FromEntries(Inserted, << >>)))
       => SectionBytes("BodyMap") = WriteMap(Inserted, BodyCache, toBil, 1).bytes

\* C8 - Out-of-bounds reads fail: a read of a BinaryReader that asks for
\* more bytes than remain after the offset fails, no read returns fewer
\* bytes than it was asked for, and the offset is never left beyond the end
\* of the buffer nor before where it was.
C8_OutOfBoundsReadsFail ==
  read.op # ""
    => /\ read.len > Len(bytes) - read.before => ~read.ok
       /\ read.ok => read.got >= read.len
       /\ offset <= Len(bytes)
       /\ offset >= read.before

\* C9 - Script-block fault tolerance: when the script block could not be
\* decompressed or parsed, the header was decoded all the same, with no
\* scripts, with the reader ScriptBlockLen bytes after the length field of
\* the block, and with Version, GridSize, ControlsHeaders and Files as the
\* bytes before the block give them.
C9_ScriptBlockFaultTolerance ==
  script.failed
    => /\ consumed # << >>
       /\ consumed[1] = Section("Header", 0, script.at + 4 + script.len)
       /\ design.LayoutHeader.DesignerScript = Arr(<< >>)
       /\ HeaderIntact
            => /\ design.LayoutHeader.Version = WrittenVersion
               /\ design.LayoutHeader.GridSize = WrittenGridSize
               /\ design.LayoutHeader.ControlsHeaders = json.LayoutHeader.ControlsHeaders
               /\ design.LayoutHeader.Files = json.LayoutHeader.Files

\* The header of a buffer with a byte of its script block changed was
\* decoded, and the body's strings are read next.
C9_Witness ==
  /\ script.failed
  /\ script.len > 0
  /\ wire = "changed"
  /\ changedAt >= script.at + 4
  /\ pc = "strings"
  /\ offset = script.at + 4 + script.len

\* C10 - Script/variant count invariant: a document decode returns with a
\* script list that is not empty has one script more than it has variants.
C10_ScriptVariantCount ==
  (Returns /\ design.LayoutHeader.DesignerScript.arr # << >>)
    => Len(design.LayoutHeader.DesignerScript.arr) = Len(design.Variants) + 1

\* The payload of the first entry of the body map of buf, where the entry
\* is a key reference, a tag and four bytes
FirstPayload(buf) ==
  LET i == CHOOSE k \in 1..Len(layout) : layout[k].name = "BodyMap"
  IN  SubSeq(buf, layout[i].from + 6, layout[i].from + 9)

\* "0x" and the eight uppercase hexadecimal digits of four bytes b
ColourText(b) ==
  LET digit == << 48, 49, 50, 51, 52, 53, 54, 55, 56, 57, 65, 66, 67, 68, 69, 70 >>
  IN  << 48, 120 >>
        \o << digit[b[1] \div 16 + 1], digit[(b[1] % 16) + 1],
              digit[b[2] \div 16 + 1], digit[(b[2] % 16) + 1],
              digit[b[3] \div 16 + 1], digit[(b[3] % 16) + 1],
              digit[b[4] \div 16 + 1], digit[(b[4] % 16) + 1] >>

\* The byte that was changed is in the payload of the first body entry
PayloadChanged ==
  /\ wire = "changed"
  /\ \E k \in 1..Len(layout) :
       /\ layout[k].name = "BodyMap"
       /\ changedAt >= layout[k].from + 5
       /\ changedAt < layout[k].from + 9

\* The first entry of a body is a colour
ColourFirst(doc) ==
  /\ doc.Data.obj # << >>
  /\ Field(doc.Data.obj[1][2], Text.ValueType) = Num(TYPE_CODES.CCOLOR)

\* C11 - Colour round-trip: a Color entry with payload b is decoded to "0x"
\* and the eight uppercase hexadecimal digits of b in byte order, and
\* encoding the decoded value writes the four bytes b again.
C11_ColourRoundTrip ==
  /\ (/\ pc \in { "done", "failed" } /\ round <= 1 /\ ColourFirst(json)
      /\ wire = "intact" \/ PayloadChanged)
       => /\ Returns
          /\ design.Data.obj # << >>
          /\ design.Data.obj[1][2]
               = Tagged(TYPE_CODES.CCOLOR, Str(ColourText(FirstPayload(bytes))))
  /\ (round = 1 /\ pc = "header" /\ ColourFirst(json))
       => json.Data.obj[1][2]
            = Tagged(TYPE_CODES.CCOLOR, Str(ColourText(FirstPayload(sent))))

\* A colour whose payload was changed to hold a byte below 16 was decoded
\* and the decoded document is encoded again.
C11_Witness ==
  /\ round = 1
  /\ pc = "header"
  /\ ColourFirst(json)
  /\ \E i \in 1..4 : FirstPayload(sent)[i] < 16

\* C12 - Encode-then-decode of a hand-built document: decode of the bytes
\* encode wrote for a document built by hand returns, and the document it
\* returns has every body integer and every body string of the document under
\* its key, the width and the height of every variant, and the two flags.
C12_HandBuiltRoundTrip ==
  (HandBuilt(json) /\ pc \in { "done", "failed" } /\ wire \in { "none", "intact" })
    => /\ Returns
       /\ \A i \in 1..Len(json.Data.obj) :
            Get(design.Data.obj, json.Data.obj[i][1]) = json.Data.obj[i][2]
       /\ Len(design.Variants) = Len(json.Variants)
       /\ \A i \in 1..Len(json.Variants) :
            /\ design.Variants[i].Width = json.Variants[i].Width
            /\ design.Variants[i].Height = json.Variants[i].Height
       /\ design.FontAwesome = json.FontAwesome
       /\ design.MaterialIcons = json.MaterialIcons

\* C13 - Writer auto-grow: whatever the capacity the writer was made with,
\* no write call fails, the offset is never beyond the length of the buffer,
\* and as long as no field was set afterwards getBuffer gives the bytes the
\* calls were given, in call order.
C13_WriterAutoGrow ==
  pc = "writer"
    => /\ writer.err = ""
       /\ writer.offset <= Len(writer.mem[writer.buffer])
       /\ reserved.end = -1 => getBuffer(writer) = written

\* A writer made with capacity 0 has grown more than once and holds the
\* bytes written before the last growth.
C13_Witness ==
  /\ pc = "writer"
  /\ Len(writer.mem[1]) = 0
  /\ writer.buffer >= 3
  /\ reserved.at = -1
  /\ Len(written) >= 9
  /\ getBuffer(writer) = written

\* C20 - Header length backpatch: the int32 at offset 4 of the bytes encode
\* wrote is the number of header bytes after it, up to the end of the script
\* block as decode finds it; and on a writer, setting a reserved field to the
\* number of bytes written after it changes those four bytes only: the
\* offset and every other byte are as the write calls left them, also when
\* the buffer has grown since the field was reserved.
C20_HeaderLengthBackpatch ==
  /\ (wire = "intact" /\ pc \in { "strings", "variants", "map", "footer", "done" })
       => /\ consumed # << >>
          /\ BytesToInt(SubSeq(sent, 5, 8)) = script.at + 4 + script.len - 8
          /\ consumed[1].to = script.at + 4 + script.len
  /\ (pc = "writer" /\ reserved.end >= 0)
       => /\ writer.err = ""
          /\ writer.offset = Len(written)
          /\ getBuffer(writer)
               = [i \in 1..Len(written) |->
                    IF i = reserved.at + 1 THEN reserved.end - reserved.at - 4
                    ELSE IF i > reserved.at + 1 /\ i <= reserved.at + 4 THEN 0
                    ELSE written[i]]

\* A field reserved in one array was set after the writer had grown, to a
\* number that is not 0.
C20_Witness ==
  /\ pc = "writer"
  /\ reserved.end > reserved.at + 4
  /\ writer.buffer # reserved.in
  /\ getBuffer(writer) # written

RECURSIVE TokensRenamed(_, _, _)
TokensRenamed(s, i, entries) ==
  LET word(c) == c \in (48..57) \cup (65..90) \cup (97..122) \cup { 95 }
      end == CHOOSE j \in i..Len(s) :
               /\ \A k \in i..j : word(s[k])
               /\ j = Len(s) \/ ~word(s[j + 1])
      token == SubSeq(s, i, end)
  IN  IF i > Len(s) THEN << >>
      ELSE IF ~word(s[i]) THEN << s[i] >> \o TokensRenamed(s, i + 1, entries)
      ELSE (IF \E e \in 1..Len(entries) : entries[e][1] = token
            THEN replaceIdentifiers(token, entries)
            ELSE token)
             \o TokensRenamed(s, end + 1, entries)

\* The document node with every string value and every key renamed token by
\* token, at every depth; an object is made by assigning its entries in order.
RECURSIVE NodeRenamed(_, _)
NodeRenamed(node, entries) ==
  IF Is(node, "str") THEN Str(TokensRenamed(node.str, 1, entries))
  ELSE IF Is(node, "arr")
  THEN Arr([i \in 1..Len(node.arr) |-> NodeRenamed(node.arr[i], entries)])
  ELSE IF Is(node, "obj")
  THEN Obj(FromEntries([i \in 1..Len(node.obj) |->
                          << TokensRenamed(node.obj[i][1], 1, entries),
                             NodeRenamed(node.obj[i][2], entries) >>],
                       << >>))
  ELSE node

\* C15 - Identifier-only renaming: what renameComponentsInBjlJson returns
\* is the document with, in every string value and every key at every depth,
\* the whole identifier tokens that are old names replaced and every other
\* identifier and character kept; a number, a boolean and null are returned
\* as they are.
C15_IdentifierOnlyRenaming ==
  (pc = "renamed" /\ renaming.err = "")
    => /\ renaming.out = NodeRenamed(renaming.node, normalizeRenameMap(renaming.map).entries)
       /\ (Is(renaming.node, "num") \/ Is(renaming.node, "bool") \/ Is(renaming.node, "null"))
            => renaming.out = renaming.node
       /\ (renaming.node = Str(<< 97, 98, 120 >>) \/ renaming.node = Str(<< 120, 97, 98 >>)
             \/ renaming.node = Str(<< 97, 98, 95 >>) \/ renaming.node = Str(<< 95, 97, 98 >>)
             \/ renaming.node = Str(<< 97, 98, 49 >>))
            => renaming.out = renaming.node

\* The names ab and g were renamed to hl and z in an object with the key ab
\* at two depths and the key abx, which is kept.
C15_Witness ==
  /\ pc = "renamed"
  /\ renaming.map = Obj(<< << << 97, 98 >>, Str(<< 104, 108 >>) >>, << << 103 >>, Str(<< 122 >>) >> >>)
  /\ renaming.out =
       Obj(<< << << 104, 108 >>,
                 Obj(<< << << 104, 108 >>, Str(<< 104, 108, 46, 122 >>) >>,
                        << << 120 >>, Arr(<< Str(<< 122 >>), Null >>) >> >>) >>,
              << << 97, 98, 120 >>, Bool(FALSE) >> >>)


(***************************************************************************)
(* C16.  removeItem(nodeId) returns true exactly when an item with that id *)
(* is in the menu (reachable from items) at the call, and then neither     *)
(* that item nor any item under it is left in nodeMap or reachable from    *)
(* items; otherwise it returns false and items and nodeMap are as before.  *)
(***************************************************************************)
C16_RemoveItem ==
  (pc = "menu" /\ menu.last.op = "removeItem")
    => LET was == { r \in Under(menu.last.heap, menu.last.items) :
                      menu.last.heap[r].nodeId = menu.last.id }
           gone == UNION { Under(menu.last.heap, << r >>) : r \in was }
       IN  /\ menu.last.result <=> (was # { })
           /\ menu.last.result
                => /\ gone \cap Under(menu.heap, menu.items) = { }
                   /\ \A k \in 1..Len(menu.nodeMap) :
                        /\ menu.nodeMap[k][2] \notin gone
                        /\ \A r \in gone : menu.nodeMap[k][1] # menu.heap[r].nodeId
           /\ ~menu.last.result
                => /\ menu.items = menu.last.items
                   /\ menu.nodeMap = menu.last.nodeMap
                   /\ menu.heap = menu.last.heap


\* The strings _writeMap comes to for a map, in the order it comes to them:
\* each key, then the plain string value or the strings of the nested map.
RECURSIVE Mentions(_)
Mentions(pairs) ==
  IF pairs = << >> THEN << >>
  ELSE << Str(pairs[1][1]) >>
         \o (IF Is(pairs[1][2], "str") THEN << pairs[1][2] >>
             ELSE IF IsObject(pairs[1][2]) /\ Is(Field(pairs[1][2], Text.ValueType), "undef")
             THEN Mentions(PairsOf(pairs[1][2]))
             ELSE << >>)
         \o Mentions(Tail(pairs))

\* The string table of the buffer encode returned, as decode loads it
EmittedTable == LoadStringsCache(SectionBytes("BodyStringTable"), 0).v

\* The places of a string in the emitted table, from 0
PlacesOf(s) ==
  { p \in 0..(Len(EmittedTable) - 1) : EmittedTable[p + 1] = Str(TextDecode(TextEncode(JsString(s)))) }

(***************************************************************************)
(* C17.  Body string table: when encode returns bytes, every key and every *)
(* plain string value of the body, at every depth, has exactly one place   *)
(* in the string table of the bytes; a string that _writeMap comes to      *)
(* first before another has the lower place; and the body map of the bytes *)
(* is what _writeMap writes when each reference is the place of its string *)
(* in that table.                                                          *)
(***************************************************************************)
C17_BodyStringTable ==
  (round = 0 /\ pc = "handover")
    => LET m == Mentions(PairsOf(DataOf(json.Data)))
           first(s) == CHOOSE i \in 1..Len(m) : m[i] = s /\ \A k \in 1..(i - 1) : m[k] # s
           place(s) == CHOOSE p \in PlacesOf(s) : TRUE
           byPlace == FromEntries([p \in 1..Len(EmittedTable) |->
                                     << EmittedTable[p].str, Num(p - 1) >>], << >>)
       IN  /\ \A i \in 1..Len(m) : Cardinality(PlacesOf(m[i])) = 1
           /\ \A i, k \in 1..Len(m) :
                (Cardinality(PlacesOf(m[i])) = 1 /\ Cardinality(PlacesOf(m[k])) = 1
                   /\ first(m[i]) < first(m[k]))
                  => place(m[i]) < place(m[k])
           /\ WriteMap(PairsOf(DataOf(json.Data)), byPlace, toBil, 1)
                = Written(SectionBytes("BodyMap"))


\* The name, javaType and designerType strings of a list of control entries,
\* in the order they are met
RECURSIVE EntryStrings(_)
EntryStrings(controls) ==
  IF controls = << >> THEN << >>
  ELSE << controls[1].Name, controls[1].JavaType, controls[1].DesignerType >>
         \o EntryStrings(Tail(controls))

\* A list without the later occurrences of its items
RECURSIVE FirstOccurrences(_)
FirstOccurrences(list) ==
  IF list = << >> THEN << >>
  ELSE LET front == FirstOccurrences(SubSeq(list, 1, Len(list) - 1))
       IN  IF \E i \in 1..Len(front) : front[i] = list[Len(list)] THEN front
           ELSE Append(front, list[Len(list)])

\* The header string table of the buffer encode returned, as decode loads it
EmittedHeaderTable ==
  LoadStringsCache(sent, IF BytesToInt(SubSeq(sent, 1, 4)) >= 4 THEN 12 ELSE 8).v

(***************************************************************************)
(* C18.  Header string table: the header string table of the bytes encode  *)
(* returned lists the name, javaType and designerType strings of the       *)
(* control entries in the order they are first met, and the decode of the  *)
(* bytes returns every control entry with the three strings it had,        *)
(* whatever the strings are.                                               *)
(***************************************************************************)
C18_HeaderStringTable ==
  (round = 0 /\ wire = "intact" /\ pc \in { "strings", "variants", "map", "footer", "done" })
    => /\ EmittedHeaderTable = FirstOccurrences(EntryStrings(json.LayoutHeader.ControlsHeaders))
       /\ design.LayoutHeader.ControlsHeaders = json.LayoutHeader.ControlsHeaders


\* The key of the pair on which the body's _readMap left its loop, as the
\* reader resolves it with the string table of the decode
EndKey == ReadCachedString(bytes, mapEnd.keyAt, cache).v

(***************************************************************************)
(* C19.  Map sentinel: the body map of the bytes encode returned ends with *)
(* a pair whose key the decoder's string table resolves to the empty       *)
(* string and whose tag is ENDOFMAP; and whenever _readMap has left the    *)
(* loop of the body map, of whatever buffer, it left it on such a pair.    *)
(***************************************************************************)
C19_MapSentinel ==
  /\ (wire = "intact" /\ round = 0 /\ pc \in { "footer", "done" })
       => /\ mapEnd.keyAt = layout[CHOOSE k \in 1..Len(layout) : layout[k].name = "Sentinel"].from
          /\ bytes[mapEnd.keyAt + 5] = TYPE_CODES.ENDOFMAP
          /\ EndKey = Str(<< >>)
  /\ (pc \in { "footer", "done" } /\ mapEnd.stop # "")
       => (mapEnd.stop = "end" /\ EndKey = Str(<< >>))

\* The decompressed script stream of the buffer given to decode.
ScriptStream ==
  Ungzip(SubSeq(bytes, script.at + 5, script.at + 4 + script.len))

\* C21 - Script string round-trip: for every script text s of the document
\* given to encode, _readBinaryString on the bytes _writeBinaryString wrote
\* for s returns s and leaves the reader at the end of those bytes; and the
\* first string of the script stream of the bytes encode returned reads
\* back so.
C21_ScriptStringRoundTrip ==
  (round = 0 /\ wire = "intact" /\ script.at >= 0
     /\ Is(json.LayoutHeader.DesignerScript, "arr"))
    => LET scripts == json.LayoutHeader.DesignerScript.arr
       IN  /\ \A i \in 1..Len(scripts) :
                ReadBinaryString(WriteBinaryString(scripts, i), 0)
                  = Ok(scripts[i], Len(WriteBinaryString(scripts, i)))
           /\ scripts # << >>
                => /\ ScriptStream.err = ""
                   /\ ReadBinaryString(ScriptStream.v, 0)
                        = Ok(scripts[1], Len(WriteBinaryString(scripts, 1)))

\* C22 - Decode terminates: a decode that has begun on a buffer returns a
\* document or fails with an error: it is never in a call of _readMap whose
\* loop repeats without end an iteration that leaves the reader at the
\* offset it began at.
C22_DecodeTerminates ==
  pc = "map" => ReadMap(bytes, offset, cache).err # "Forever"

\* C23 - Unknown tag stops decoding: when the _readMap of the body, or a
\* _readMap it called for a nested map, has met a tag outside the known set,
\* the decoding of the body stopped there: the reader was left just after
\* the first such tag, and no iteration that began after it has added an
\* entry to a map that was being read then.
C23_UnknownTagStops ==
  (pc \in { "footer", "done" } /\ mapEnd.unknown >= 0)
    => /\ consumed[6].to = mapEnd.unknown
       /\ mapEnd.after = 0

\* C24 - Reduced mode emits no Null or Rect: the body map of the bytes a
\* converter with toBil wrote holds, when read back, no entry tagged Null
\* or Rect at any depth.
C24_ReducedEmitsNoNullOrRect ==
  (toBil /\ round = 0 /\ pc = "footer" /\ wire = "intact")
    => NoNullOrRect(design.Data.obj)

\* A value that is a map and not a tagged value { ValueType, Value } or
\* { ValueType }.
IsMapValue(val) ==
  Is(val, "obj") /\ Keys(val.obj) \notin { << Text.ValueType >>, << Text.ValueType, Text.Value >> }

\* C25 - Nested maps are never mistaken for tagged values: every nested
\* map of the body of a document given to encode, be the document built by
\* hand or returned by decode, is in the body decode reads from the bytes
\* encode wrote, under its key and with all its entries.
C25_NestedMapsStayMaps ==
  (~toBil /\ round \in { 0, 1 } /\ wire = "intact" /\ pc = "footer")
    => \A i \in 1..Len(PairsOf(DataOf(json.Data))) :
         IsMapValue(PairsOf(DataOf(json.Data))[i][2])
           => /\ HasOwn(design.Data.obj, PairsOf(DataOf(json.Data))[i][1])
              /\ Get(design.Data.obj, PairsOf(DataOf(json.Data))[i][1])
                   = PairsOf(DataOf(json.Data))[i][2]

\* Every key of the map is a string of the table and every value that is not
\* an object is a string of the table or not a string and not undefined, at
\* every depth.
RECURSIVE ResolvedIn(_, _)
ResolvedIn(pairs, table) ==
  \A i \in 1..Len(pairs) :
    /\ \E k \in 1..Len(table) : table[k] = Str(pairs[i][1])
    /\ ~Is(pairs[i][2], "undef")
    /\ Is(pairs[i][2], "str") => \E k \in 1..Len(table) : table[k] = pairs[i][2]
    /\ IsNested(pairs[i][2]) => ResolvedIn(pairs[i][2].obj, table)

\* C26 - Cache references resolve inside the table: when decode has read a
\* body map with a string table that is not empty, every key of the map and
\* every value read by reference is a string of the table, at every depth:
\* a reference outside the table has not given a key or a value.
C26_CacheReferencesResolve ==
  (pc \in { "footer", "done" } /\ cache # << >>)
    => ResolvedIn(design.Data.obj, cache)

\* The string s, from code unit i on, with every identifier token that is an
\* old name of the entries replaced by the new name of that entry, each
\* token being looked up once.
RECURSIVE TokensMapped(_, _, _)
TokensMapped(s, i, entries) ==
  LET word(c) == c \in (48..57) \cup (65..90) \cup (97..122) \cup { 95 }
      end == CHOOSE j \in i..Len(s) :
               /\ \A k \in i..j : word(s[k])
               /\ j = Len(s) \/ ~word(s[j + 1])
      token == SubSeq(s, i, end)
  IN  IF i > Len(s) THEN << >>
      ELSE IF ~word(s[i]) THEN << s[i] >> \o TokensMapped(s, i + 1, entries)
      ELSE (IF \E e \in 1..Len(entries) : entries[e][1] = token
            THEN entries[CHOOSE e \in 1..Len(entries) : entries[e][1] = token][2]
            ELSE token)
             \o TokensMapped(s, end + 1, entries)

\* The document node with the tokens of every string value and every key
\* mapped so, at every depth.
RECURSIVE NodeMapped(_, _)
NodeMapped(node, entries) ==
  IF Is(node, "str") THEN Str(TokensMapped(node.str, 1, entries))
  ELSE IF Is(node, "arr")
  THEN Arr([i \in 1..Len(node.arr) |-> NodeMapped(node.arr[i], entries)])
  ELSE IF Is(node, "obj")
  THEN Obj(FromEntries([i \in 1..Len(node.obj) |->
                          << TokensMapped(node.obj[i][1], 1, entries),
                             NodeMapped(node.obj[i][2], entries) >>],
                       << >>))
  ELSE node

\* C27 - Renames are simultaneous: what renameComponentsInBjlJson returns
\* is the document with each identifier token that is an old name replaced
\* by the new name the map gives it, and nothing else changed: the text a
\* replacement has put in is not renamed by another entry of the map.
C27_SimultaneousRenames ==
  (pc = "renamed" /\ renaming.err = "")
    => renaming.out = NodeMapped(renaming.node, normalizeRenameMap(renaming.map).entries)

\* C28 - ContextMenu tree/index consistency: after any calls of addItem,
\* removeItem and clear, the keys of nodeMap are the nodeIds of the nodes
\* reachable from items through children, no two of those nodes have the
\* same nodeId, and every one of them with a parentId is a child of a
\* reachable node with that id.
C28_TreeIndexConsistency ==
  pc = "menu"
    => LET tree == Under(menu.heap, menu.items)
       IN  /\ { menu.nodeMap[k][1] : k \in 1..Len(menu.nodeMap) }
                = { menu.heap[r].nodeId : r \in tree }
           /\ \A r \in tree : \A q \in tree :
                menu.heap[r].nodeId = menu.heap[q].nodeId => r = q
           /\ \A r \in tree :
                menu.heap[r].parentId # << >>
                  => \E p \in tree :
                       /\ menu.heap[p].nodeId = menu.heap[r].parentId
                       /\ \E c \in 1..Len(menu.heap[p].children) :
                            menu.heap[p].children[c] = r

\* C29: once show() has been called on a sheet, the sheet is open and stays
\* open until a later hide(), an Escape press or a dismissing click on the
\* backdrop: while the last request is the show(), no close timer of a
\* hide() that came before it has removed the attribute open.
C29_ShowKeepsOpen ==
  (pc = "sheet" /\ sheet.asked = "show") => sheet.open

\* C30: the array of the stored value has one slot for each of the boxes,
\* and an operation dispatches a completion event only when every box holds
\* exactly one character, the detail being these characters in box order.
C30_OtpCompletion ==
  pc = "otp" =>
    /\ Len(otp.value) = otp.length
    /\ otp.last.event \in { "complete", "otp-complete" } =>
         /\ \A k \in 1..otp.length : Len(otp.inputs[k]) = 1
         /\ otp.last.detail = [k \in 1..otp.length |-> otp.inputs[k][1]]

=============================================================================
